---- MODULE Spec2Model ----
(***************************************************************************)
(* A model of flake8's checker.Manager (the scheduler) and                 *)
(* checker.FileChecker (the per-file check driver), src/flake8/checker.py. *)
(*                                                                         *)
(* Python values are represented as follows.                               *)
(*   - a str that the code inspects character by character (the --jobs     *)
(*     option) is a sequence of one-character strings;                     *)
(*   - a message text is a sequence of space-separated words, so that      *)
(*     text.split(' ', 1) is <<first word, remaining words>>;              *)
(*   - a tuple is a TLA+ tuple; Python's 0-based tup[i] is Py(tup, i);      *)
(*   - a raised exception is the "raised" field of an operator's result.   *)
(***************************************************************************)
EXTENDS Integers, Sequences, FiniteSets, TLC

VARIABLES
    env,                    \* what Manager.__init__ reads: options, arguments, platform
    files,                  \* the files named by the arguments, as the collaborators see them
    jobs,                   \* Manager.jobs
    using_multiprocessing,  \* Manager.using_multiprocessing
    process_queue,          \* Manager.process_queue: [created, items]
    results_queue,          \* Manager.results_queue: [created, items]
    processes,              \* Manager.processes: the ids of the started processes
    checkers,               \* Manager.checkers in the main process
    log,                    \* the LOG.warning calls made so far
    main,                   \* the main process: the call in progress, the calls made, what was raised
    procs,                  \* the worker processes 1..jobs-1: [pc, holding]
    reporter,               \* the reporter process: [pc, seen_done, final_results, checkers]
    handled,                \* the style_guide.handle_error calls, in order
    hist,                   \* history of run(): the errno of the OSError run_parallel raised, the
                            \* files of self.checkers, the files main called run_checks for;
                            \* of the workers: per file, how often its checker was put on the
                            \* process queue, got from it, run, and put as a result; per
                            \* worker, the sentinels it has put
    guide,                  \* a StyleGuide, its last call and what the call returned and emitted
    driver                  \* a FileChecker inside process_tokens: the token machine

vars == <<env, files, jobs, using_multiprocessing, process_queue, results_queue,
          processes, checkers, log, main, procs, reporter, handled, hist, guide, driver>>

(***************************************************************************)
(* Bounds of the model.                                                    *)
(***************************************************************************)
MaxCpu == 3       \* largest multiprocessing.cpu_count()
MaxJobs == 3      \* largest worker count of a run
MaxFiles == 2     \* longest list of files
MaxLine == 2      \* largest line number a check reports
MaxColumn == 1    \* largest column a check reports

(***************************************************************************)
(* Python helpers.                                                         *)
(***************************************************************************)
Py(tup, i) == tup[i + 1]

\* No StyleGuide and no token machine: the value of guide and of driver in the
\* runs that are about the Manager.
NoStyleGuide == [made |-> FALSE]

NoTokens == [started |-> FALSE]

Range(s) == {s[i] : i \in DOMAIN s}

RECURSIVE Concat(_)
Concat(ss) == IF ss = <<>> THEN <<>> ELSE Head(ss) \o Concat(Tail(ss))

\* Words in Python's string order (upper case before lower case).
WordOrder ==
    <<"EOF", "IOError:", "SyntaxError:", "TypeError:", "ValueError:", "denied",
      "invalid", "long", "syntax", "whitespace">>

WordRank(w) == CHOOSE i \in DOMAIN WordOrder : WordOrder[i] = w

RECURSIVE TextLess(_, _)
TextLess(a, b) ==
    IF b = <<>> THEN FALSE
    ELSE IF a = <<>> THEN TRUE
    ELSE IF Head(a) = Head(b) THEN TextLess(Tail(a), Tail(b))
    ELSE WordRank(Head(a)) < WordRank(Head(b))

\* sorted(s, key=...), a stable sort: lt holds the pairs <<i, j>> of positions with
\* key(s[i]) < key(s[j]); an element moves behind those with a smaller key and
\* those with an equal key that stood before it.
sorted(s, lt) ==
    [k \in 1..Len(s) |->
        s[CHOOSE i \in DOMAIN s :
            Cardinality({j \in DOMAIN s :
                <<j, i>> \in lt \/ (<<i, j>> \notin lt /\ j < i)}) = k - 1]]

(***************************************************************************)
(* Manager._job_count                                                      *)
(***************************************************************************)
\* The characters of a str are those of Python 3, where the --jobs option is a
\* text string; SuperscriptTwo stands for the character U+00B2.  (In a Python 2
\* byte string that character is two bytes, neither of them a digit.)
Digits == {"0", "1", "2", "3", "4", "5", "6", "7", "8", "9"}

SuperscriptTwo == "^2"

DigitValue(c) ==
    CASE c = "0" -> 0 [] c = "1" -> 1 [] c = "2" -> 2 [] c = "3" -> 3 [] c = "4" -> 4
      [] c = "5" -> 5 [] c = "6" -> 6 [] c = "7" -> 7 [] c = "8" -> 8 [] c = "9" -> 9

Auto == <<"a", "u", "t", "o">>

\* str.isdigit(): non-empty and every character a digit, decimal or not.
isdigit(s) == s # <<>> /\ \A i \in DOMAIN s : s[i] \in Digits \cup {SuperscriptTwo}

\* int(s) raises ValueError unless s is a string of decimal digits.
IntRaises(s) == s = <<>> \/ \E i \in DOMAIN s : s[i] \notin Digits

\* int(s) of a string of decimal digits.
RECURSIVE int(_)
int(s) == IF s = <<>> THEN 0 ELSE 10 * int(SubSeq(s, 1, Len(s) - 1)) + DigitValue(s[Len(s)])

\* The result of a call: the exception raised ("none": it returned), the value
\* returned and the warnings logged.
Returned(value, warnings) == [raised |-> "none", ret |-> value, warnings |-> warnings]

Raised(exception, warnings) == [raised |-> exception, ret |-> 0, warnings |-> warnings]

\* _job_count without the warning for a --jobs value that is no number.
JobCountSilentlyZero(e) ==
    IF ~e.multiprocessing THEN Returned(0, <<"multiprocessing is not available">>)
    ELSE IF e.is_windows THEN Returned(0, <<"--jobs is not available on Windows">>)
    ELSE IF e.is_using_stdin THEN Returned(0, <<"--jobs is not compatible with stdin">>)
    ELSE IF e.diff THEN Returned(0, <<"--diff is not compatible with --jobs">>)
    ELSE IF e.jobs # Auto /\ ~isdigit(e.jobs) THEN Returned(0, <<>>)
    ELSE IF e.jobs = Auto
        THEN IF ~e.cpu_count.implemented
             THEN Returned(0, <<>>)
             ELSE Returned(e.cpu_count.count, <<>>)
    ELSE IF IntRaises(e.jobs) THEN Raised("ValueError", <<>>)
    ELSE Returned(int(e.jobs), <<>>)

\* multiprocessing.cpu_count(): e.cpu_count is [implemented, count].
_job_count(e) ==
    IF ~e.multiprocessing THEN Returned(0, <<"multiprocessing is not available">>)
    ELSE IF e.is_windows THEN Returned(0, <<"--jobs is not available on Windows">>)
    ELSE IF e.is_using_stdin THEN Returned(0, <<"--jobs is not compatible with stdin">>)
    ELSE IF e.diff THEN Returned(0, <<"--diff is not compatible with --jobs">>)
    ELSE IF e.jobs # Auto /\ ~isdigit(e.jobs)
        THEN Returned(0, <<"not a valid parameter to --jobs">>)
    ELSE IF e.jobs = Auto
        THEN IF ~e.cpu_count.implemented
             THEN Returned(0, <<>>)
             ELSE Returned(e.cpu_count.count, <<>>)
    ELSE IF IntRaises(e.jobs) THEN Raised("ValueError", <<>>)
    ELSE Returned(int(e.jobs), <<>>)

(***************************************************************************)
(* FileChecker.  A checker is [filename, results, processor]; processor is *)
(* "unset" until __init__ has assigned the attribute, then "None" or       *)
(* "FileProcessor".  What the collaborators (the Source Processor, the     *)
(* plugins) do for a file is the file's entry in `files`:                  *)
(*   readable        FileProcessor(filename) does not raise IOError        *)
(*   should_ignore   processor.should_ignore_file()                        *)
(*   token_reports   the <<line, column, text>> that the physical-line and *)
(*                   logical-line checks report during process_tokens      *)
(*   invalid_syntax  <<>>, or <<exc>> when generate_tokens then raises     *)
(*                   InvalidSyntax exc                                     *)
(*   ast_error       <<>>, or <<[type, args]>> when build_ast raises       *)
(*   ast_yields      the <<line, offset, text, check>> that the syntax-    *)
(*                   tree plugins yield when they are run                  *)
(***************************************************************************)
None == "None"

NoException == "none"

FileOf(filename) == CHOOSE f \in Range(files) : f.filename = filename

\* processor.line_for(line_number): the text of that physical line.
line_for(filename, line_number) == <<"line", line_number, "of", filename>>

Outcome(exception, self, value) == [raised |-> exception, self |-> self, ret |-> value]

report(self, error_code, line_number, column, text) ==
    LET code == IF error_code = None THEN Head(text) ELSE error_code
        rest == IF error_code = None THEN Tail(text) ELSE text
    IN  IF self.processor # "FileProcessor"
        THEN Outcome("AttributeError", self, None)
        ELSE LET physical_line == line_for(self.filename, line_number)
                 error == <<code, line_number, column, rest, physical_line>>
             IN  Outcome(NoException,
                         [self EXCEPT !.results = Append(@, error)], code)

IOErrorMessage == <<"IOError:", "denied">>

\* except IOError: ... self.report('E902', 0, 0, message); return None
ReturnNone(reported) ==
    IF reported.raised # NoException THEN reported
    ELSE Outcome(NoException, reported.self, None)

_make_processor(self) ==
    IF FileOf(self.filename).readable
    THEN Outcome(NoException, self, "FileProcessor")
    ELSE ReturnNone(report(self, "E902", 0, 0, IOErrorMessage))

\* self.processor = <what _make_processor returned>
AssignProcessor(made) ==
    IF made.raised # NoException THEN made
    ELSE Outcome(NoException, [made.self EXCEPT !.processor = made.ret], None)

FileChecker__init__(filename) ==
    AssignProcessor(_make_processor(
        [filename |-> filename, results |-> <<>>, processor |-> "unset"]))

\* report(error_code=None, ...) for each entry of a sequence of <<line, column, text, ...>>,
\* up to the first call that raises.
RECURSIVE report_each(_, _)
RECURSIVE ReportRest(_, _)
report_each(self, reports) ==
    IF reports = <<>> THEN Outcome(NoException, self, None)
    ELSE ReportRest(report(self, None, Py(Head(reports), 0), Py(Head(reports), 1),
                           Py(Head(reports), 2)),
                    Tail(reports))

ReportRest(reported, reports) ==
    IF reported.raised # NoException THEN reported
    ELSE report_each(reported.self, reports)

\* exc_type.__name__ followed by ':'.
TypeNameColon(type) ==
    CASE type = "SyntaxError" -> "SyntaxError:"
      [] type = "ValueError" -> "ValueError:"
      [] type = "TypeError" -> "TypeError:"

\* run_ast_checks reporting at (1, 0) whatever position the exception carries.
RunAstChecksAtOneZero(self) ==
    LET file == FileOf(self.filename)
    IN  IF file.ast_error # <<>>
        THEN LET exception == file.ast_error[1]
                 args == exception.args
             IN  report(self, "E999", 1, 0,
                        <<TypeNameColon(exception.type)>> \o Py(args, 0))
        ELSE report_each(self, file.ast_yields)

run_ast_checks(self) ==
    LET file == FileOf(self.filename)
    IN  IF file.ast_error # <<>>
        THEN LET exception == file.ast_error[1]
                 args == exception.args
                 offset == IF Len(args) > 1
                           THEN IF Len(Py(args, 1)) > 2
                                THEN SubSeq(Py(args, 1), 2, 3)
                                ELSE Py(args, 1)
                           ELSE <<1, 0>>
             IN  report(self, "E999", Py(offset, 0), Py(offset, 1),
                        <<TypeNameColon(exception.type)>> \o Py(args, 0))
        ELSE report_each(self, file.ast_yields)

\* generate_tokens() is exhausted, or raises InvalidSyntax.
EndOfTokens(file, checked) ==
    IF checked.raised # NoException THEN checked
    ELSE IF file.invalid_syntax # <<>>
    THEN Outcome("InvalidSyntax", checked.self, file.invalid_syntax[1])
    ELSE checked

\* The checks run by process_tokens report file.token_reports; if the token
\* stream is broken, generate_tokens then raises InvalidSyntax.
process_tokens(self) ==
    EndOfTokens(FileOf(self.filename),
                report_each(self, FileOf(self.filename).token_reports))

\* A queue is [created, items]: created is FALSE while the attribute is None.
NoQueue == [created |-> FALSE, items |-> <<>>]

DONE == [kind |-> "DONE"]

ResultItem(self) == [kind |-> "result", filename |-> self.filename, results |-> self.results]

\* if results_queue is not None: results_queue.put((self.filename, self.results))
PutResults(ast, queue) ==
    IF ast.raised # NoException THEN Outcome(ast.raised, ast.self, <<>>)
    ELSE Outcome(NoException, ast.self,
                 IF queue.created THEN <<ResultItem(ast.self)>> ELSE <<>>)

\* self.run_ast_checks() and what follows it
AfterTokens(tokens, queue) ==
    IF tokens.raised # NoException THEN Outcome(tokens.raised, tokens.self, <<>>)
    ELSE PutResults(run_ast_checks(tokens.self), queue)

\* An except clause that reports nothing.
ExceptAndPass(tokens) ==
    IF tokens.raised = "InvalidSyntax"
    THEN Outcome(NoException, tokens.self, None)
    ELSE tokens

\* except exceptions.InvalidSyntax as exc: self.report(...)
ExceptInvalidSyntax(tokens) ==
    IF tokens.raised = "InvalidSyntax"
    THEN report(tokens.self, tokens.ret.error_code, tokens.ret.line_number,
                tokens.ret.column_number, tokens.ret.error_message)
    ELSE tokens

\* run_checks returns the checker as it leaves it and, in ret, what it has put
\* on results_queue.
run_checks(self, queue) ==
    IF self.processor # "FileProcessor" THEN Outcome("AttributeError", self, <<>>)
    ELSE IF FileOf(self.filename).should_ignore THEN Outcome(NoException, self, <<>>)
    ELSE AfterTokens(ExceptInvalidSyntax(process_tokens(self)), queue)

(***************************************************************************)
(* Manager: reporting.                                                     *)
(***************************************************************************)
handle_error(filename, tup) ==
    [code |-> Py(tup, 0), filename |-> filename, line_number |-> Py(tup, 1),
     column_number |-> Py(tup, 2), text |-> Py(tup, 3), physical_line |-> Py(tup, 4)]

\* key=lambda tup: (tup[2], tup[3]) on (error_code, line_number, column, text, line)
SerialKeyLess(a, b) ==
    \/ Py(a, 2) < Py(b, 2)
    \/ Py(a, 2) = Py(b, 2) /\ TextLess(Py(a, 3), Py(b, 3))

\* key=lambda tup: (tup[1], tup[2])
ParallelKeyLess(a, b) ==
    \/ Py(a, 1) < Py(b, 1)
    \/ Py(a, 1) = Py(b, 1) /\ Py(a, 2) < Py(b, 2)

HandleEach(filename, results) ==
    [i \in DOMAIN results |-> handle_error(filename, results[i])]

\* The handle_error calls of _report_after_serial for the checkers cs.
_report_after_serial(cs) ==
    Concat([i \in DOMAIN cs |->
        LET r == cs[i].results
        IN  HandleEach(cs[i].filename,
                       sorted(r, {p \in (DOMAIN r) \X (DOMAIN r) : SerialKeyLess(r[p[1]], r[p[2]])}))])

\* final_results.get(filename, [])
Get(final_results, filename) ==
    IF filename \in DOMAIN final_results THEN final_results[filename] ELSE <<>>

\* The handle_error calls of the second loop of _report_after_parallel.
_report_after_parallel(cs, final_results) ==
    Concat([i \in DOMAIN cs |->
        LET r == Get(final_results, cs[i].filename)
        IN  HandleEach(cs[i].filename,
                       sorted(r, {p \in (DOMAIN r) \X (DOMAIN r) : ParallelKeyLess(r[p[1]], r[p[2]])}))])

(***************************************************************************)
(* Manager: the main process.  main is [pc, idx, raised, calls]: pc is     *)
(* "idle" between calls of the public methods and names the loop a call is *)
(* in otherwise; raised is the exception that escaped a call.  The caller  *)
(* calls each public method at most once, in any order.                    *)
(***************************************************************************)
\* An allow-list that holds every errno.
RetryOnEveryErrno == {"ENOSPC", "EAGAIN"}

SERIAL_RETRY_ERRNOS == {"ENOSPC"}

Errnos == {"ENOSPC", "EAGAIN"}

CanCall(method) ==
    /\ main.pc = "idle"
    /\ main.raised = NoException
    /\ method \notin Range(main.calls)

Called(method) == [main EXCEPT !.calls = Append(@, method)]

Raise(m, exception) == [m EXCEPT !.pc = "raised", !.raised = exception]

\* [FileChecker(filename, ...) for ... filename ...]
RECURSIVE make_each(_)
RECURSIVE MakeRest(_, _)
RECURSIVE Collect(_, _)
make_each(fs) ==
    IF fs = <<>> THEN Outcome(NoException, None, <<>>)
    ELSE MakeRest(FileChecker__init__(Head(fs).filename), Tail(fs))

MakeRest(first, fs) ==
    IF first.raised # NoException THEN Outcome(first.raised, None, <<>>)
    ELSE Collect(first, make_each(fs))

Collect(first, rest) ==
    IF rest.raised # NoException THEN rest
    ELSE Outcome(NoException, None, <<first.self>> \o rest.ret)

\* self.checkers = [...], unless the list could not be built
MadeCheckers(made, method) ==
    IF made.raised # NoException
    THEN [checkers |-> checkers, main |-> Raise(Called(method), made.raised)]
    ELSE [checkers |-> made.ret,
          main |-> IF method = "start" /\ using_multiprocessing /\ made.ret # <<>>
                   THEN [Called(method) EXCEPT !.pc = "start_put", !.idx = 1]
                   ELSE Called(method)]

make_checkers ==
    /\ CanCall("make_checkers")
    /\ checkers' = MadeCheckers(make_each(files), "make_checkers").checkers
    /\ main' = MadeCheckers(make_each(files), "make_checkers").main
    /\ UNCHANGED <<guide, driver, env, files, jobs, using_multiprocessing, process_queue, results_queue,
                   processes, log, procs, reporter, handled, hist>>

\* start(): make_checkers(), then the loop of puts if using_multiprocessing.
start ==
    /\ CanCall("start")
    /\ checkers' = MadeCheckers(make_each(files), "start").checkers
    /\ main' = MadeCheckers(make_each(files), "start").main
    /\ UNCHANGED <<guide, driver, env, files, jobs, using_multiprocessing, process_queue, results_queue,
                   processes, log, procs, reporter, handled, hist>>

\* self.process_queue.put(checker), for the next checker
start_put ==
    /\ main.pc = "start_put"
    /\ IF ~process_queue.created
       THEN /\ main' = Raise(main, "AttributeError")
            /\ UNCHANGED process_queue
       ELSE /\ process_queue' =
                   [process_queue EXCEPT !.items =
                       Append(@, [kind |-> "checker", checker |-> checkers[main.idx]])]
            /\ main' = IF main.idx = Len(checkers)
                       THEN [main EXCEPT !.pc = "idle", !.idx = 0]
                       ELSE [main EXCEPT !.idx = @ + 1]
    /\ hist' = IF process_queue.created
               THEN [hist EXCEPT !.placed[checkers[main.idx].filename] = @ + 1]
               ELSE hist
    /\ UNCHANGED <<guide, driver, env, files, jobs, using_multiprocessing, results_queue, processes,
                   checkers, log, procs, reporter, handled>>

\* run_serial: checker.run_checks(self.results_queue) for each checker, up to the
\* first that raises; put is what was put on the results queue, ran the files
\* run_checks was called for.
RECURSIVE run_serial(_, _)
RECURSIVE RunRest(_, _, _)
RECURSIVE Ran(_, _, _)
run_serial(cs, queue) ==
    IF cs = <<>> THEN [raised |-> NoException, checkers |-> <<>>, put |-> <<>>, ran |-> <<>>]
    ELSE RunRest(run_checks(Head(cs), queue), cs, queue)

RunRest(first, cs, queue) ==
    IF first.raised # NoException
    THEN [raised |-> first.raised, checkers |-> <<first.self>> \o Tail(cs),
          put |-> <<>>, ran |-> <<Head(cs).filename>>]
    ELSE Ran(first, run_serial(Tail(cs), queue), Head(cs).filename)

Ran(first, rest, filename) ==
    [raised |-> rest.raised,
     checkers |-> <<first.self>> \o rest.checkers,
     put |-> first.ret \o rest.put,
     ran |-> <<filename>> \o rest.ran]

EmptyDict == [filename \in {} |-> <<>>]

UnbornWorker == [pc |-> "unborn", holding |-> <<>>]

UnbornReporter ==
    [pc |-> "unborn", seen_done |-> 0, final_results |-> EmptyDict, checkers |-> <<>>]

\* The state run_parallel leaves after `done` of its jobs + 2 steps: the two
\* queues, the jobs - 1 workers, the reporter.
StartedWorkers(done) == IF done - 2 < 0 THEN 0 ELSE IF done - 2 > jobs - 1 THEN jobs - 1 ELSE done - 2

\* The Manager after a run_serial() that did r, with results queue `queue`; m is
\* the main process as it called, errno the OSError caught before (if any).
AfterRunSerial(self, r, queue, m, errno) ==
    [self EXCEPT
        !.checkers = r.checkers,
        !.results_queue = [queue EXCEPT !.items = @ \o r.put],
        !.hist = [self.hist EXCEPT !.oserror = errno, !.run_checks = @ \o r.ran],
        !.main = IF r.raised # NoException THEN Raise(m, r.raised) ELSE m]

\* The Manager after run().  In run_parallel, `done` of the jobs + 2 steps
\* succeed; unless that is all of them, the next one raises OSError(errno).
Manager_run(done, errno) ==
    LET self == [process_queue |-> process_queue, results_queue |-> results_queue,
                 procs |-> procs, processes |-> processes, reporter |-> reporter,
                 checkers |-> checkers, log |-> log,
                 hist |-> [hist EXCEPT !.drivers = [i \in DOMAIN checkers |-> checkers[i].filename]],
                 main |-> Called("run")]
        fresh == [created |-> TRUE, items |-> <<>>]
        rq == IF done >= 2 THEN fresh ELSE results_queue
        nworkers == StartedWorkers(done)
        started == done = jobs + 2
        parallel ==
            [self EXCEPT
                !.process_queue = IF done >= 1 THEN fresh ELSE @,
                !.results_queue = rq,
                !.procs = [w \in DOMAIN procs |->
                              IF w <= nworkers THEN [pc |-> "get", holding |-> <<>>]
                              ELSE procs[w]],
                !.processes = @ \o [i \in 1..nworkers |-> i]
                                \o (IF started THEN <<jobs>> ELSE <<>>),
                !.reporter = IF started
                             THEN [pc |-> "collect", seen_done |-> 0,
                                   final_results |-> EmptyDict, checkers |-> checkers]
                             ELSE @]
    IN  IF ~using_multiprocessing
        THEN AfterRunSerial(self, run_serial(checkers, results_queue), results_queue,
                            self.main, hist.oserror)
        ELSE IF started THEN parallel
        ELSE IF errno \notin SERIAL_RETRY_ERRNOS
        THEN [parallel EXCEPT !.main = Raise(@, "OSError"),
                              !.hist = [@ EXCEPT !.oserror = errno]]
        ELSE AfterRunSerial(
                 [parallel EXCEPT !.log = Append(@, "Running in serial after OS exception")],
                 run_serial(checkers, rq), rq, self.main, errno)

run ==
    /\ CanCall("run")
    /\ \E done \in 0..(jobs + 2), errno \in Errnos :
        LET after == Manager_run(done, errno)
        IN  /\ process_queue' = after.process_queue
            /\ results_queue' = after.results_queue
            /\ procs' = after.procs
            /\ processes' = after.processes
            /\ reporter' = after.reporter
            /\ checkers' = after.checkers
            /\ log' = after.log
            /\ hist' = after.hist
            /\ main' = after.main
    /\ UNCHANGED <<guide, driver, env, files, jobs, using_multiprocessing, handled>>

Manager_report ==
    /\ CanCall("report")
    /\ main' = Called("report")
    /\ handled' = IF ~using_multiprocessing
                  THEN handled \o _report_after_serial(checkers)
                  ELSE handled
    /\ UNCHANGED <<guide, driver, env, files, jobs, using_multiprocessing, process_queue, results_queue,
                   processes, checkers, log, procs, reporter, hist>>

\* stop(): for i in range(self.jobs): self.process_queue.put('DONE'), which
\* raises at the first put while process_queue is None; then the joins, if
\* there is a process to join.
stop ==
    /\ CanCall("stop")
    /\ IF jobs > 0 /\ ~process_queue.created
       THEN /\ main' = Raise(Called("stop"), "AttributeError")
            /\ UNCHANGED process_queue
       ELSE /\ process_queue' =
                   [process_queue EXCEPT !.items = @ \o [i \in 1..jobs |-> DONE]]
            /\ main' = IF processes = <<>> THEN Called("stop")
                       ELSE [Called("stop") EXCEPT !.pc = "stop_join", !.idx = 1]
    /\ UNCHANGED <<guide, driver, env, files, jobs, using_multiprocessing, results_queue, processes,
                   checkers, log, procs, reporter, handled, hist>>

Exited(p) == IF p = jobs THEN reporter.pc = "exited" ELSE procs[p].pc = "exited"

\* proc.join(), for the next process: returns once that process has exited
stop_join ==
    /\ main.pc = "stop_join"
    /\ Exited(processes[main.idx])
    /\ main' = IF main.idx = Len(processes) THEN [main EXCEPT !.pc = "idle", !.idx = 0]
               ELSE [main EXCEPT !.idx = @ + 1]
    /\ UNCHANGED <<guide, driver, env, files, jobs, using_multiprocessing, process_queue, results_queue,
                   processes, checkers, log, procs, reporter, handled, hist>>

(***************************************************************************)
(* Manager: the child processes.  A worker runs _run_checks_from_queue, the *)
(* reporter runs _report_after_parallel on the Manager as it was when the  *)
(* reporter was started.                                                   *)
(***************************************************************************)
\* A worker that ends without a sentinel of its own.
WorkerGetNoSentinel(w) ==
    /\ procs[w].pc = "get"
    /\ process_queue.items # <<>>
    /\ IF Head(process_queue.items).kind = "DONE"
       THEN /\ procs' = [procs EXCEPT ![w] = [pc |-> "exited", holding |-> <<>>]]
            /\ UNCHANGED <<results_queue, hist>>
       ELSE /\ procs' = [procs EXCEPT ![w] =
                            [pc |-> "run", holding |-> <<Head(process_queue.items).checker>>]]
            /\ UNCHANGED results_queue
            /\ hist' = [hist EXCEPT !.pulled[Head(process_queue.items).checker.filename] = @ + 1]
    /\ process_queue' = [process_queue EXCEPT !.items = Tail(@)]
    /\ UNCHANGED <<guide, driver, env, files, jobs, using_multiprocessing, processes,
                   checkers, log, main, reporter, handled>>

\* checker = self.process_queue.get(); on the sentinel the loop ends and the
\* worker puts its own sentinel on the results queue and exits.
worker_get(w) ==
    /\ procs[w].pc = "get"
    /\ process_queue.items # <<>>
    /\ IF Head(process_queue.items).kind = "DONE"
       THEN /\ procs' = [procs EXCEPT ![w] = [pc |-> "exited", holding |-> <<>>]]
            /\ results_queue' = [results_queue EXCEPT !.items = Append(@, DONE)]
            /\ hist' = [hist EXCEPT !.sentinels[w] = @ + 1]
       ELSE /\ procs' = [procs EXCEPT ![w] =
                            [pc |-> "run", holding |-> <<Head(process_queue.items).checker>>]]
            /\ UNCHANGED results_queue
            /\ hist' = [hist EXCEPT !.pulled[Head(process_queue.items).checker.filename] = @ + 1]
    /\ process_queue' = [process_queue EXCEPT !.items = Tail(@)]
    /\ UNCHANGED <<guide, driver, env, files, jobs, using_multiprocessing, processes,
                   checkers, log, main, reporter, handled>>

\* checker.run_checks(self.results_queue)
worker_run(w) ==
    /\ procs[w].pc = "run"
    /\ LET r == run_checks(procs[w].holding[1], results_queue)
       IN  /\ results_queue' = [results_queue EXCEPT !.items = @ \o r.ret]
           /\ procs' = [procs EXCEPT ![w] =
                           IF r.raised # NoException THEN [pc |-> "exited", holding |-> <<>>]
                           ELSE [pc |-> "get", holding |-> <<>>]]
           /\ hist' = [hist EXCEPT !.ran[procs[w].holding[1].filename] = @ + 1,
                                   !.pairs[procs[w].holding[1].filename] = @ + Len(r.ret)]
    /\ UNCHANGED <<guide, driver, env, files, jobs, using_multiprocessing, process_queue, processes,
                   checkers, log, main, reporter, handled>>

\* One result = self.results_queue.get() of _results, with what follows it up to
\* the next get: the pair is stored in final_results, or the sentinel counted
\* and, when seen_done >= self.jobs, the results replayed.
reporter_get ==
    /\ reporter.pc = "collect"
    /\ results_queue.items # <<>>
    /\ LET result == Head(results_queue.items)
       IN  IF result.kind = "DONE"
           THEN IF reporter.seen_done + 1 >= jobs
                THEN /\ reporter' = [reporter EXCEPT !.seen_done = @ + 1, !.pc = "exited"]
                     /\ handled' = handled \o
                            _report_after_parallel(reporter.checkers, reporter.final_results)
                ELSE /\ reporter' = [reporter EXCEPT !.seen_done = @ + 1]
                     /\ UNCHANGED handled
           ELSE /\ reporter' = [reporter EXCEPT !.final_results =
                                   (result.filename :> result.results) @@ @]
                /\ UNCHANGED handled
    /\ results_queue' = [results_queue EXCEPT !.items = Tail(@)]
    /\ UNCHANGED <<guide, driver, env, files, jobs, using_multiprocessing, process_queue, processes,
                   checkers, log, main, procs, hist>>

(***************************************************************************)
(* Inputs.                                                                 *)
(***************************************************************************)
DigitChar(n) == <<"0", "1", "2", "3", "4", "5", "6", "7", "8", "9">>[n + 1]

Banana == <<"b", "a", "n", "a", "n", "a">>

\* --jobs values: "auto", the numbers of one or two digits up to MaxCpu each,
\* and values that are no number.
JobsOptions ==
    {Auto, Banana, <<>>, <<"-", "1">>, <<"2", "x">>, <<"a", "u", "t", "o", "2">>,
     <<SuperscriptTwo>>, <<"1", SuperscriptTwo>>}
    \cup {<<DigitChar(n)>> : n \in 0..MaxCpu}
    \cup {<<DigitChar(m), DigitChar(n)>> : m \in 0..MaxCpu, n \in 0..MaxCpu}

CpuCounts ==
    {[implemented |-> FALSE, count |-> 0]}
    \cup {[implemented |-> TRUE, count |-> n] : n \in 1..MaxCpu}

Envs ==
    [multiprocessing : BOOLEAN, is_windows : BOOLEAN, is_using_stdin : BOOLEAN,
     diff : BOOLEAN, jobs : JobsOptions, cpu_count : CpuCounts]

\* The environments of the runs: --jobs is "auto" (on a machine with an unknown
\* number of CPUs), a number up to MaxJobs, or "banana", and nothing rules
\* parallelism out; or --diff is given with --jobs banana, 0 or MaxJobs.
RunEnv(j, diff) ==
    [multiprocessing |-> TRUE, is_windows |-> FALSE, is_using_stdin |-> FALSE,
     diff |-> diff, jobs |-> j, cpu_count |-> [implemented |-> FALSE, count |-> 0]]

RunEnvs ==
    {RunEnv(j, FALSE) : j \in {Auto, Banana} \cup {<<DigitChar(n)>> : n \in 0..MaxJobs}}
    \cup {RunEnv(j, TRUE) : j \in {Banana, <<"0">>, <<DigitChar(MaxJobs)>>}}

FileNames == <<"a.py", "b.py", "c.py", "d.py">>

Positions == (1..MaxLine) \X (0..MaxColumn)

LongLine == <<"E501", "long">>

TrailingWhitespace == <<"W291", "whitespace">>

\* What a physical-line or logical-line check reports: <<line, column, text>>.
Reports(texts) == {<<p[1], p[2], t>> : p \in Positions, t \in texts}

\* What a syntax-tree plugin yields: <<line, offset, text, check>>.
Yields(texts) == {<<p[1], p[2], t, "plugin">> : p \in Positions, t \in texts}

UpTo(n, S) == UNION {[1..k -> S] : k \in 0..n}

\* The InvalidSyntax raised for a broken token stream.
TokenError ==
    [error_code |-> "E902", line_number |-> 1, column_number |-> 0,
     error_message |-> <<"EOF">>]

\* The exceptions of build_ast: with a message alone, with the
\* (filename, lineno, offset, text) of a SyntaxError, with a (lineno, offset) pair.
AstErrors ==
    {[type |-> t, args |-> <<<<"invalid", "syntax">>>>] :
        t \in {"SyntaxError", "ValueError", "TypeError"}}
    \cup {[type |-> "SyntaxError", args |-> <<<<"invalid", "syntax">>, <<"a.py", p[1], p[2], "text">>>>] :
        p \in Positions}
    \cup {[type |-> "ValueError", args |-> <<<<"invalid", "syntax">>, <<p[1], p[2]>>>>] :
        p \in Positions}

\* Every file behaviour within the bounds.
AllFileKinds ==
    [readable : BOOLEAN, should_ignore : BOOLEAN,
     token_reports : UpTo(2, Reports({LongLine})),
     invalid_syntax : {<<>>, <<TokenError>>},
     ast_error : {<<>>} \cup {<<e>> : e \in AstErrors},
     ast_yields : UpTo(1, Yields({TrailingWhitespace}))]

Clean ==
    [readable |-> TRUE, should_ignore |-> FALSE, token_reports |-> <<>>,
     invalid_syntax |-> <<>>, ast_error |-> <<>>, ast_yields |-> <<>>]

\* The file behaviours of the runs: an unreadable file, a skipped file, a file
\* with two reports the later of which stands earlier in the file, and a file
\* with a report and a syntax error.
RunFileKinds ==
    {[Clean EXCEPT !.readable = FALSE],
     [Clean EXCEPT !.should_ignore = TRUE],
     [Clean EXCEPT !.token_reports = <<<<MaxLine, 0, TrailingWhitespace>>,
                                       <<1, MaxColumn, LongLine>>>>],
     [Clean EXCEPT !.token_reports = <<<<1, 0, LongLine>>>>,
                   !.ast_error = <<[type |-> "SyntaxError",
                                    args |-> <<<<"invalid", "syntax">>,
                                               <<"a.py", MaxLine, MaxColumn, "text">>>>]>>]}

Named(kind, filename) ==
    [filename |-> filename, readable |-> kind.readable,
     should_ignore |-> kind.should_ignore, token_reports |-> kind.token_reports,
     invalid_syntax |-> kind.invalid_syntax, ast_error |-> kind.ast_error,
     ast_yields |-> kind.ast_yields]

\* The lists of up to MaxFiles files, each of a kind in kinds.
FileLists(kinds) ==
    {[i \in DOMAIN ks |-> Named(ks[i], FileNames[i])] : ks \in UpTo(MaxFiles, kinds)}

(***************************************************************************)
(* Manager.__init__ and the specifications.                                *)
(***************************************************************************)
\* Nothing has happened yet to the files fs and the workers of n jobs.
NoHistory(fs, n) ==
    [oserror |-> "none", drivers |-> <<>>, run_checks |-> <<>>,
     placed |-> [f \in {fs[i].filename : i \in DOMAIN fs} |-> 0],
     pulled |-> [f \in {fs[i].filename : i \in DOMAIN fs} |-> 0],
     ran |-> [f \in {fs[i].filename : i \in DOMAIN fs} |-> 0],
     pairs |-> [f \in {fs[i].filename : i \in DOMAIN fs} |-> 0],
     sentinels |-> [w \in 1..(n - 1) |-> 0]]

\* The Manager that __init__ leaves, for the environment e and the files fs.
Manager__init__(e, fs) ==
    [env |-> e,
     files |-> fs,
     jobs |-> _job_count(e).ret,
     log |-> _job_count(e).warnings,
     process_queue |-> NoQueue,
     results_queue |-> NoQueue,
     using_multiprocessing |-> (_job_count(e).ret > 1),
     processes |-> <<>>,
     checkers |-> <<>>,
     main |-> [pc |-> IF _job_count(e).raised = NoException THEN "idle" ELSE "raised",
               idx |-> 0, raised |-> _job_count(e).raised, calls |-> <<>>],
     procs |-> [w \in 1..(_job_count(e).ret - 1) |-> UnbornWorker],
     reporter |-> UnbornReporter,
     handled |-> <<>>,
     hist |-> NoHistory(fs, _job_count(e).ret)]

\* Before __init__: the environment and the files are there, the Manager is not.
NoManager(e, fs) ==
    [env |-> e, files |-> fs, jobs |-> 0, log |-> <<>>, process_queue |-> NoQueue,
     results_queue |-> NoQueue, using_multiprocessing |-> FALSE, processes |-> <<>>,
     checkers |-> <<>>,
     main |-> [pc |-> "new", idx |-> 0, raised |-> NoException, calls |-> <<>>],
     procs |-> <<>>, reporter |-> UnbornReporter, handled |-> <<>>,
     hist |-> NoHistory(fs, 0)]

StateIs(m) ==
    /\ env = m.env
    /\ files = m.files
    /\ jobs = m.jobs
    /\ log = m.log
    /\ process_queue = m.process_queue
    /\ results_queue = m.results_queue
    /\ using_multiprocessing = m.using_multiprocessing
    /\ processes = m.processes
    /\ checkers = m.checkers
    /\ main = m.main
    /\ procs = m.procs
    /\ reporter = m.reporter
    /\ handled = m.handled
    /\ hist = m.hist
    /\ guide = NoStyleGuide
    /\ driver = NoTokens

\* The runs of a Manager: the caller's calls and the child processes.
Init == \E e \in RunEnvs, fs \in FileLists(RunFileKinds) : StateIs(Manager__init__(e, fs))

Next ==
    \/ make_checkers
    \/ start
    \/ start_put
    \/ run
    \/ Manager_report
    \/ stop
    \/ stop_join
    \/ \E w \in DOMAIN procs : worker_get(w)
    \/ \E w \in DOMAIN procs : worker_run(w)
    \/ reporter_get

Spec == Init /\ [][Next]_vars

\* The construction of a Manager, for every environment.
InitJobs == \E e \in Envs : StateIs(NoManager(e, <<>>))

construct ==
    /\ main.pc = "new"
    /\ jobs' = Manager__init__(env, files).jobs
    /\ log' = Manager__init__(env, files).log
    /\ using_multiprocessing' = Manager__init__(env, files).using_multiprocessing
    /\ main' = Manager__init__(env, files).main
    /\ procs' = Manager__init__(env, files).procs
    /\ UNCHANGED <<guide, driver, env, files, process_queue, results_queue, processes, checkers,
                   reporter, handled, hist>>

NextJobs == construct

SpecJobs == InitJobs /\ [][NextJobs]_vars

\* One file of every kind, checked by a serial Manager.
SerialEnv == RunEnv(<<"0">>, FALSE)

InitChecker ==
    \E kind \in AllFileKinds :
        StateIs(Manager__init__(SerialEnv, <<Named(kind, FileNames[1])>>))

NextChecker ==
    \/ make_checkers
    \/ run

SpecChecker == InitChecker /\ [][NextChecker]_vars


(***************************************************************************)
(* StyleGuide, src/flake8/style_guide.py.  A str is a sequence of          *)
(* one-character strings.  A StyleGuide is the record of its attributes;   *)
(* the tuples _selected and _ignored are sets, since the code only asks    *)
(* whether some element matches and sorts the matching ones.  A method     *)
(* returns [self, ret, emitted]: the StyleGuide afterwards, the value      *)
(* returned, the calls made on the formatter and the listener.             *)
(***************************************************************************)
\* Characters in code-point order.
CharOrder ==
    <<"\n", " ", "#", ",", "0", "1", "2", "3", "5", "9", ":", "A", "E", "N", "O", "Q", "W",
      "a", "e", "n", "o", "q", "w", "x">>

ord(c) == CHOOSE i \in DOMAIN CharOrder : CharOrder[i] = c

\* a < b for two str.
RECURSIVE StrLess(_, _)
StrLess(a, b) ==
    IF b = <<>> THEN FALSE
    ELSE IF a = <<>> THEN TRUE
    ELSE IF Head(a) = Head(b) THEN StrLess(Tail(a), Tail(b))
    ELSE ord(Head(a)) < ord(Head(b))

\* sorted(strs)[0]
First(strs) == CHOOSE m \in strs : \A x \in strs : x = m \/ StrLess(m, x)

\* s.startswith(prefix) and s.startswith(tuple_of_prefixes)
startswith(s, prefix) == Len(prefix) <= Len(s) /\ SubSeq(s, 1, Len(prefix)) = prefix

StartsWithAny(s, prefixes) == \E prefix \in prefixes : startswith(s, prefix)

SelectedExplicitly == "Selected.Explicitly"

SelectedImplicitly == "Selected.Implicitly"

IgnoredExplicitly == "Ignored.Explicitly"

IgnoredImplicitly == "Ignored.Implicitly"

DecisionIgnored == "Decision.Ignored"

DecisionSelected == "Decision.Selected"

NoCall == [method |-> "none", args |-> <<>>, ret |-> None, emitted |-> <<>>]

StyleGuide__init__(options) ==
    [made |-> TRUE,
     options |-> options,
     _selected |-> options.select,
     _ignored |-> options.ignore,
     _decision_cache |-> [code \in {} |-> None],
     _parsed_diff |-> [filename \in {} |-> {}],
     last |-> NoCall]

is_user_selected(self, code) ==
    IF self._selected = {} THEN SelectedImplicitly
    ELSE IF StartsWithAny(code, self._selected) THEN SelectedExplicitly
    ELSE IgnoredImplicitly

\* is_user_ignored answering Selected.Implicitly whatever is ignored.
NothingIgnored(self, code) == SelectedImplicitly

is_user_ignored(self, code) ==
    IF self._ignored # {} /\ StartsWithAny(code, self._ignored) THEN IgnoredExplicitly
    ELSE SelectedImplicitly

\* [0] of an empty list raises IndexError.
_decision_for(self, code) ==
    LET selected == {s \in self._selected : startswith(code, s)}
        ignored == {i \in self._ignored : startswith(code, i)}
    IN  IF selected = {} \/ ignored = {} THEN "IndexError"
        ELSE IF startswith(First(selected), First(ignored)) THEN DecisionSelected
        ELSE DecisionIgnored

\* The decision for a code that is not in the cache.
Decide(self, code, selected, ignored) ==
    IF selected \in {SelectedExplicitly, SelectedImplicitly} /\ ignored = SelectedImplicitly
    THEN DecisionSelected
    ELSE IF selected = SelectedExplicitly /\ ignored = IgnoredExplicitly
    THEN _decision_for(self, code)
    ELSE IF selected = IgnoredImplicitly \/ ignored = IgnoredExplicitly
    THEN DecisionIgnored
    ELSE None

\* The cache filled with Selected whatever was decided.
CachedAsSelected(self, code, decision) ==
    [self |-> [self EXCEPT !._decision_cache = (code :> DecisionSelected) @@ @],
     ret |-> decision, emitted |-> <<>>]

Cached(self, code, decision) ==
    [self |-> [self EXCEPT !._decision_cache = (code :> decision) @@ @],
     ret |-> decision, emitted |-> <<>>]

should_report_error(self, code) ==
    IF code \in DOMAIN self._decision_cache /\ self._decision_cache[code] # None
    THEN [self |-> self, ret |-> self._decision_cache[code], emitted |-> <<>>]
    ELSE Cached(self, code,
                Decide(self, code, is_user_selected(self, code), is_user_ignored(self, code)))

\* The StyleGuide after a call of a method with the arguments args that did r.
AfterCall(method, args, r) ==
    [r.self EXCEPT !.last = [method |-> method, args |-> args, ret |-> r.ret,
                             emitted |-> r.emitted]]

\* None where a str, a sequence of characters, can be: no str is equal to it.
NoStr == <<None>>

\* The characters that [A-Z0-9,] matches under re.IGNORECASE.
CodeListChars ==
    {",", "0", "1", "2", "3", "5", "9", "A", "E", "N", "O", "Q", "W",
     "a", "e", "n", "o", "q", "w", "x"}

lower(c) ==
    CASE c = "A" -> "a" [] c = "E" -> "e" [] c = "N" -> "n" [] c = "O" -> "o"
      [] c = "Q" -> "q" [] c = "W" -> "w" [] OTHER -> c

\* The literal part of NOQA_INLINE_REGEXP.
HashNoqa == <<"#", " ", "n", "o", "q", "a">>

\* Where $ can match: at the end of the line, or before a newline that is its
\* last character; nothing in the pattern matches a newline, so a match ends
\* before that newline.
BeforeLastNewline(line) ==
    IF line # <<>> /\ line[Len(line)] = "\n" THEN SubSeq(line, 1, Len(line) - 1) ELSE line

\* The literal matches at position i, ignoring case.
LiteralAt(line, i) ==
    /\ i + Len(HashNoqa) - 1 <= Len(line)
    /\ \A k \in DOMAIN HashNoqa : lower(line[i + k - 1]) = HashNoqa[k]

\* (?P<codes>[A-Z0-9,]+)?$ on what follows the literal and the optional ': ':
\* nothing is left, or all that is left is the code list.
CodesToEnd(rest) ==
    IF rest = <<>> THEN [matched |-> TRUE, codes |-> NoStr]
    ELSE IF \A k \in DOMAIN rest : rest[k] \in CodeListChars
    THEN [matched |-> TRUE, codes |-> rest]
    ELSE [matched |-> FALSE, codes |-> NoStr]

\* (?:: )? takes ': ' if it is there; the pattern is retried without it if the
\* rest then does not match.
AfterLiteral(rest) ==
    IF Len(rest) >= 2 /\ rest[1] = ":" /\ rest[2] = " "
       /\ CodesToEnd(SubSeq(rest, 3, Len(rest))).matched
    THEN CodesToEnd(SubSeq(rest, 3, Len(rest)))
    ELSE CodesToEnd(rest)

MatchAt(line, i) ==
    IF LiteralAt(line, i)
    THEN AfterLiteral(SubSeq(line, i + Len(HashNoqa), Len(line)))
    ELSE [matched |-> FALSE, codes |-> NoStr]

\* NOQA_INLINE_REGEXP.search(physical_line): the leftmost match, if any.
NOQA_INLINE_REGEXP_search(physical_line) ==
    LET line == BeforeLastNewline(physical_line)
        starts == {i \in DOMAIN line : MatchAt(line, i).matched}
    IN  IF starts = {} THEN [matched |-> FALSE, codes |-> NoStr]
        ELSE MatchAt(line, CHOOSE i \in starts : \A j \in starts : i <= j)

\* value.split(','): the parts between the commas.
RECURSIVE split(_, _)
split(value, part) ==
    IF value = <<>> THEN <<part>>
    ELSE IF Head(value) = "," THEN <<part>> \o split(Tail(value), <<>>)
    ELSE split(Tail(value), Append(part, Head(value)))

\* utils.parse_comma_separated_list: the items between the commas.
parse_comma_separated_list(value) == IF value = <<>> THEN <<>> ELSE split(value, <<>>)

\* linecache.getline(filename, line_number): the line as it is in the file.
getline(filename, line_number) ==
    IF filename = "a.py" /\ line_number = 4
    THEN <<"x", " ", "#", " ", "n", "o", "q", "a", "\n">>
    ELSE <<"x", "\n">>

Result(self, value) == [self |-> self, ret |-> value, emitted |-> <<>>]

\* is_inline_ignored that looks for no listed code: a code list ignores nothing.
InlineIgnoredOnlyBlanket(self, error) ==
    LET physical_line == IF error.physical_line = NoStr
                         THEN getline(error.filename, error.line_number)
                         ELSE error.physical_line
        noqa_match == NOQA_INLINE_REGEXP_search(physical_line)
    IN  IF self.options.disable_noqa THEN Result(self, FALSE)
        ELSE IF ~noqa_match.matched THEN Result(self, FALSE)
        ELSE IF noqa_match.codes = NoStr THEN Result(self, TRUE)
        ELSE Result(self, FALSE)

is_inline_ignored(self, error) ==
    LET physical_line == IF error.physical_line = NoStr
                         THEN getline(error.filename, error.line_number)
                         ELSE error.physical_line
        noqa_match == NOQA_INLINE_REGEXP_search(physical_line)
        codes == Range(parse_comma_separated_list(noqa_match.codes))
    IN  IF self.options.disable_noqa THEN Result(self, FALSE)
        ELSE IF ~noqa_match.matched THEN Result(self, FALSE)
        ELSE IF noqa_match.codes = NoStr THEN Result(self, TRUE)
        ELSE Result(self, error.code \in codes \/ StartsWithAny(error.code, codes))

\* is_in_diff without the look at the line numbers: every line of a file of
\* the diff is in the diff.
InDiffWholeFile(self, error) ==
    IF DOMAIN self._parsed_diff = {} THEN Result(self, TRUE)
    ELSE IF error.filename \notin DOMAIN self._parsed_diff THEN Result(self, FALSE)
    ELSE IF self._parsed_diff[error.filename] = {} THEN Result(self, FALSE)
    ELSE Result(self, TRUE)

\* `not line_numbers`: .get() found no entry, or the entry is an empty set.
is_in_diff(self, error) ==
    IF DOMAIN self._parsed_diff = {} THEN Result(self, TRUE)
    ELSE IF error.filename \notin DOMAIN self._parsed_diff THEN Result(self, FALSE)
    ELSE IF self._parsed_diff[error.filename] = {} THEN Result(self, FALSE)
    ELSE Result(self, error.line_number \in self._parsed_diff[error.filename])

add_diff_ranges(self, diffinfo) == Result([self EXCEPT !._parsed_diff = diffinfo], None)

\* error._replace(filename=self.options.stdin_display_name) for None and '-'
Error(self, call) ==
    IF call.filename = None \/ call.filename = "-"
    THEN [call EXCEPT !.filename = self.options.stdin_display_name]
    ELSE call

\* self.formatter.handle(error); self.listener.notify(error.code, error)
HandleAndNotify(error) ==
    <<[call |-> "formatter.handle", args |-> <<error>>],
      [call |-> "listener.notify", args |-> <<error.code, error>>]>>

\* The three tests of handle_error, made in this order whatever they answer.
Handled(error, selected, inline, diff) ==
    [self |-> selected.self,
     ret |-> None,
     emitted |-> IF selected.ret = DecisionSelected /\ inline.ret = FALSE /\ diff.ret
                 THEN HandleAndNotify(error)
                 ELSE <<>>]

\* handle_error forwarding whatever is_in_diff answers.
HandleErrorOutsideDiff(self, call) ==
    Handled(Error(self, call),
            should_report_error(self, Error(self, call).code),
            is_inline_ignored(self, Error(self, call)),
            Result(self, TRUE))

StyleGuide_handle_error(self, call) ==
    Handled(Error(self, call),
            should_report_error(self, Error(self, call).code),
            is_inline_ignored(self, Error(self, call)),
            is_in_diff(self, Error(self, call)))

UnchangedManager ==
    UNCHANGED <<env, files, jobs, using_multiprocessing, process_queue, results_queue,
                processes, checkers, log, main, procs, reporter, handled, hist>>

(***************************************************************************)
(* StyleGuide: the codes and the select and ignore options of the          *)
(* decisions.                                                              *)
(***************************************************************************)
MaxPrefixes == 2  \* most prefixes in options.select and in options.ignore

E123 == <<"E", "1", "2", "3">>

E9 == <<"E", "9">>

W291 == <<"W", "2", "9", "1">>

Codes == {E123, <<"E", "1", "2">>, <<"E", "1">>, E9, W291}

Prefixes == {<<"E">>, <<"E", "1">>, <<"E", "1", "2">>, E123, E9, <<"W">>}

PrefixSets == {P \in SUBSET Prefixes : Cardinality(P) <= MaxPrefixes}

Options(select, ignore, disable_noqa) ==
    [select |-> select, ignore |-> ignore, disable_noqa |-> disable_noqa,
     stdin_display_name |-> "stdin"]

NoFiles == <<>>

\* A Manager that is not looked at: the runs of a StyleGuide or of a token
\* machine alone.
Idle == Manager__init__(SerialEnv, NoFiles)

ManagerIs(m) ==
    /\ env = m.env
    /\ files = m.files
    /\ jobs = m.jobs
    /\ log = m.log
    /\ process_queue = m.process_queue
    /\ results_queue = m.results_queue
    /\ using_multiprocessing = m.using_multiprocessing
    /\ processes = m.processes
    /\ checkers = m.checkers
    /\ main = m.main
    /\ procs = m.procs
    /\ reporter = m.reporter
    /\ handled = m.handled
    /\ hist = m.hist

\* The decisions of a StyleGuide, for every select and ignore option.
InitDecision ==
    /\ ManagerIs(Idle)
    /\ driver = NoTokens
    /\ \E select \in PrefixSets, ignore \in PrefixSets :
           guide = StyleGuide__init__(Options(select, ignore, FALSE))

call_should_report_error ==
    /\ \E code \in Codes :
           guide' = AfterCall("should_report_error", <<code>>, should_report_error(guide, code))
    /\ UNCHANGED driver
    /\ UnchangedManager

NextDecision == call_should_report_error

SpecDecision == InitDecision /\ [][NextDecision]_vars

(***************************************************************************)
(* The StyleGuide asked about physical lines: is_inline_ignored alone.     *)
(***************************************************************************)
E501 == <<"E", "5", "0", "1">>

E302 == <<"E", "3", "0", "2">>

NoqaCodes == {E501, E302, W291}

\* The spellings of the marker in the comment of NOQA_INLINE_REGEXP.
NoqaSpellings ==
    {<<"#", " ", "n", "o", "q", "a">>,
     <<"#", " ", "N", "O", "Q", "A">>,
     <<"#", " ", "N", "o", "Q", "A">>}

ColonSpace == <<":", " ">>

AfterMarker == {<<>>, ColonSpace, <<":">>}

CodeLists ==
    {<<>>, <<E501>>, <<E501, W291>>, <<W291, E302>>, <<<<"E", "5">>>>,
     <<<<"e", "5", "0", "1">>>>, <<<<"W">>, E302>>}

RECURSIVE join(_)
join(codes) ==
    IF codes = <<>> THEN <<>>
    ELSE IF Len(codes) = 1 THEN Head(codes)
    ELSE Head(codes) \o <<",">> \o join(Tail(codes))

MoreText == {<<>>, <<" ", "x">>}

LineEnds == {<<>>, <<"\n">>}

Statement == <<"x", " ">>

CommentedLines ==
    {Statement \o m \o a \o join(l) \o t \o e :
        m \in NoqaSpellings, a \in AfterMarker, l \in CodeLists, t \in MoreText, e \in LineEnds}

PlainLines == {<<>>, <<"x", "\n">>, <<"#", "n", "o", "q", "a", "\n">>}

PhysicalLines == CommentedLines \cup PlainLines

Call(code, filename, line_number, physical_line) ==
    [code |-> code, filename |-> filename, line_number |-> line_number,
     column_number |-> 0, text |-> "text", physical_line |-> physical_line]

NoqaErrors ==
    {Call(code, "a.py", 1, line) : code \in NoqaCodes, line \in PhysicalLines}
        \cup {Call(code, f, n, NoStr) : code \in NoqaCodes, f \in {"a.py", "b.py"}, n \in {1, 4}}

InitNoqa ==
    /\ ManagerIs(Idle)
    /\ driver = NoTokens
    /\ \E disable_noqa \in BOOLEAN :
           guide = StyleGuide__init__(Options({}, {}, disable_noqa))

call_is_inline_ignored ==
    /\ \E error \in NoqaErrors :
           guide' = AfterCall("is_inline_ignored", <<error>>, is_inline_ignored(guide, error))
    /\ UNCHANGED driver
    /\ UnchangedManager

NextNoqa == call_is_inline_ignored

SpecNoqa == InitNoqa /\ [][NextNoqa]_vars

(***************************************************************************)
(* The StyleGuide given diff ranges and errors to handle.                  *)
(***************************************************************************)
DiffFiles == {"a.py", "stdin"}

LineSets == {{}, {3, 4, 5}}

\* What parse_unified_diff can give: files mapped to sets of line numbers.
DiffInfos == UNION {[F -> LineSets] : F \in SUBSET DiffFiles}

NoqaLine == <<"x", " ", "#", " ", "n", "o", "q", "a", "\n">>

NoqaE501Line ==
    <<"x", " ", "#", " ", "n", "o", "q", "a", ":", " ", "E", "5", "0", "1", "\n">>

Calls ==
    {Call(code, f, n, line) :
        code \in NoqaCodes, f \in {"a.py", "b.py", "-"}, n \in {2, 4},
        line \in {NoStr, <<"x", "\n">>, NoqaLine, NoqaE501Line}}

GuideOptions ==
    {Options(select, ignore, disable_noqa) :
        select \in {{}, {<<"E">>}}, ignore \in {{<<"E", "3">>}}, disable_noqa \in BOOLEAN}

InitGuide ==
    /\ ManagerIs(Idle)
    /\ driver = NoTokens
    /\ \E options \in GuideOptions : guide = StyleGuide__init__(options)

call_add_diff_ranges ==
    /\ \E diffinfo \in DiffInfos :
           guide' = AfterCall("add_diff_ranges", <<diffinfo>>, add_diff_ranges(guide, diffinfo))
    /\ UNCHANGED driver
    /\ UnchangedManager

call_is_in_diff ==
    /\ \E error \in Calls :
           guide' = AfterCall("is_in_diff", <<error>>, is_in_diff(guide, error))
    /\ UNCHANGED driver
    /\ UnchangedManager

call_handle_error ==
    /\ \E call \in Calls :
           guide' = AfterCall("handle_error", <<call>>, StyleGuide_handle_error(guide, call))
    /\ UNCHANGED driver
    /\ UnchangedManager

NextGuide ==
    \/ call_add_diff_ranges
    \/ call_is_in_diff
    \/ call_handle_error

SpecGuide == InitGuide /\ [][NextGuide]_vars

(***************************************************************************)
(* A StyleGuide whose decisions are queried again and again, by            *)
(* should_report_error and by handle_error.  driver remembers the first    *)
(* decision returned for each code and whether the last query found its    *)
(* code in the cache.                                                      *)
(***************************************************************************)
NoQueries == [started |-> FALSE, first |-> [code \in {} |-> None], hit |-> FALSE]

\* The memory of the queries after code is queried in the current state.
Queried(code) ==
    [driver EXCEPT
        !.first = @ @@ (code :> should_report_error(guide, code).ret),
        !.hit = code \in DOMAIN guide._decision_cache]

InitCache ==
    /\ ManagerIs(Idle)
    /\ driver = NoQueries
    /\ \E options \in GuideOptions : guide = StyleGuide__init__(options)

again_add_diff_ranges ==
    /\ \E diffinfo \in DiffInfos :
           guide' = AfterCall("add_diff_ranges", <<diffinfo>>, add_diff_ranges(guide, diffinfo))
    /\ driver' = [driver EXCEPT !.hit = FALSE]
    /\ UnchangedManager

again_should_report_error ==
    /\ \E code \in NoqaCodes :
           /\ guide' = AfterCall("should_report_error", <<code>>,
                                 should_report_error(guide, code))
           /\ driver' = Queried(code)
    /\ UnchangedManager

again_handle_error ==
    /\ \E call \in Calls :
           /\ guide' = AfterCall("handle_error", <<call>>, StyleGuide_handle_error(guide, call))
           /\ driver' = Queried(call.code)
    /\ UnchangedManager

NextCache ==
    \/ again_add_diff_ranges
    \/ again_should_report_error
    \/ again_handle_error

SpecCache == InitCache /\ [][NextCache]_vars

(***************************************************************************)
(* run_checks of one FileChecker, token by token.  A token is the record   *)
(* [type, text, start_row, end_row, line] of the 5-tuple that tokenize     *)
(* yields; its text is the sequence of the lines of text it is made of.    *)
(* driver is the FileChecker in run_checks:                                *)
(*   pc          "called", "tokens" (in the loop of process_tokens),       *)
(*               "ast" (after the try statement), "returned"               *)
(*   stream      the tokens that generate_tokens() yields                  *)
(*   pos         how many of them it has yielded                           *)
(*   self        the FileChecker: filename, results, processor             *)
(*   processor   tokens and line_number of the FileProcessor               *)
(*   parens      the local variable of process_tokens                      *)
(*   events      the calls made meanwhile: each with the number of tokens  *)
(*               yielded and processor.line_number at the call             *)
(*   at_signal   self.results when InvalidSyntax was raised                *)
(***************************************************************************)
MaxForms == 2  \* most lines forms of a file

MaxStringLines == 3  \* most physical lines of a string token

Name == [type |-> "NAME", text |-> <<"x">>]

Open == [type |-> "OP", text |-> <<"(">>]

Close == [type |-> "OP", text |-> <<")">>]

Newline == [type |-> "NEWLINE", text |-> <<"\n">>]

Nl == [type |-> "NL", text |-> <<"\n">>]

Comment == [type |-> "COMMENT", text |-> <<"# c">>]

\* A string token whose text is n lines of text.
String(n) == [type |-> "STRING", text |-> [k \in 1..n |-> "s"]]

\* The tokens of a blank line, of a comment, of a statement with a comment, of
\* a call over three lines with a comment inside, of a string of one or more
\* lines, and of a string of several lines in parentheses.
LineForms ==
    {<<Nl>>, <<Comment, Nl>>, <<Name, Comment, Newline>>,
     <<Name, Open, Nl, Comment, Nl, Close, Newline>>,
     <<Open, String(MaxStringLines), Nl, Close, Newline>>}
        \cup {<<String(n), Newline>> : n \in 1..MaxStringLines}

\* The last line of a file that does not end in a newline.
LastLines == {<<>>, <<Name>>}

\* The rows of the tokens: a NEWLINE or NL ends its row.
RECURSIVE Layout(_, _)
Layout(tokens, row) ==
    IF tokens = <<>> THEN <<>>
    ELSE <<[type |-> Head(tokens).type, text |-> Head(tokens).text,
            start_row |-> row, end_row |-> row + Len(Head(tokens).text) - 1,
            line |-> <<"line", row + Len(Head(tokens).text) - 1>>]>>
         \o Layout(Tail(tokens),
                   IF Head(tokens).type \in {"NEWLINE", "NL"}
                   THEN row + Len(Head(tokens).text)
                   ELSE row + Len(Head(tokens).text) - 1)

TokenStreams ==
    {Layout(Concat(forms) \o last, 1) : forms \in UpTo(MaxForms, LineForms), last \in LastLines}

\* What generate_tokens() yields before it is exhausted or raises.
Prefixes_of(stream) == {SubSeq(stream, 1, k) : k \in 0..Len(stream)}

MissingWhitespace == <<"E225", "whitespace">>

Logged(d, call, arg) ==
    [d EXCEPT !.events = Append(@, [call |-> call, arg |-> arg, at |-> d.pos,
                                    line_number |-> d.processor.line_number,
                                    buffered |-> Len(d.processor.tokens)])]

\* One physical-line plugin, that finds something in every line.
run_physical_checks(d, physical_line) ==
    [Logged(d, "run_physical_checks", physical_line) EXCEPT
        !.self = report(@, None, d.processor.line_number, 0, TrailingWhitespace).self]

\* The tokens that build_logical_line() makes the mapping of.
InMapping(token) == token.type \notin {"NEWLINE", "NL", "COMMENT"}

\* One logical-line plugin, that finds something at offset 0 of every logical
\* line; next_logical_line() empties processor.tokens.
run_logical_checks(d) ==
    IF SelectSeq(d.processor.tokens, InMapping) = <<>>
    THEN Logged(d, "run_logical_checks", d.processor.tokens)
    ELSE [Logged(Logged(d, "run_logical_checks", d.processor.tokens),
                 "logical_line", d.processor.tokens) EXCEPT
             !.self = report(@, None,
                             SelectSeq(d.processor.tokens, InMapping)[1].start_row, 0,
                             MissingWhitespace).self,
             !.processor.tokens = <<>>]

handle_comment(d, token) ==
    run_logical_checks([Logged(d, "handle_comment", token.type) EXCEPT
                           !.processor.tokens = <<token>>])

\* self.processor.visited_new_blank_line(); self.processor.delete_first_token()
BlankLine(d) ==
    [Logged(Logged(d, "visited_new_blank_line", <<>>), "delete_first_token", <<>>) EXCEPT
        !.processor.tokens = Tail(@)]

\* handle_newline for which no line is blank.
HandleNewlineNoBlankLine(d, token_type) ==
    IF token_type = "NEWLINE"
    THEN Logged(run_logical_checks(Logged(d, "handle_newline", token_type)),
                "reset_blank_before", <<>>)
    ELSE run_logical_checks(Logged(d, "handle_newline", token_type))

handle_newline(d, token_type) ==
    IF token_type = "NEWLINE"
    THEN Logged(run_logical_checks(Logged(d, "handle_newline", token_type)),
                "reset_blank_before", <<>>)
    ELSE IF Len(d.processor.tokens) = 1
    THEN BlankLine(Logged(d, "handle_newline", token_type))
    ELSE run_logical_checks(Logged(d, "handle_newline", token_type))

is_eol_token(token) == token.type \in {"NL", "NEWLINE"}

is_multiline_string(token) == token.type = "STRING" /\ Len(token.text) > 1

\* token[1].split('\n')[:-1]
split_line(token) == SubSeq(token.text, 1, Len(token.text) - 1)

\* for line in self.processor.split_line(token): self.run_physical_checks(line + '\n');
\* split_line adds 1 to processor.line_number after each line.
RECURSIVE ForLineInSplitLine(_, _)
ForLineInSplitLine(d, lines) ==
    IF lines = <<>> THEN d
    ELSE ForLineInSplitLine(
             [run_physical_checks(d, <<Head(lines), "\n">>) EXCEPT
                 !.processor.line_number = @ + 1],
             Tail(lines))

\* with self.processor.inside_multiline(line_number=...): body
inside_multiline(d, line_number) == [d EXCEPT !.processor.line_number = line_number]

\* check_physical_eol that does not wind processor.line_number back.
CheckPhysicalEolFromLastLine(d, token) ==
    IF is_eol_token(token) THEN run_physical_checks(d, token.line)
    ELSE IF is_multiline_string(token)
    THEN inside_multiline(ForLineInSplitLine(d, split_line(token)), d.processor.line_number)
    ELSE d

check_physical_eol(d, token) ==
    IF is_eol_token(token) THEN run_physical_checks(d, token.line)
    ELSE IF is_multiline_string(token)
    THEN inside_multiline(
             ForLineInSplitLine(inside_multiline(d, token.start_row), split_line(token)),
             d.processor.line_number)
    ELSE d

count_parentheses(current, text) ==
    IF text = <<"(">> THEN current + 1
    ELSE IF text = <<")">> THEN current - 1
    ELSE current

token_is_newline(token) == token.type \in {"NL", "NEWLINE"}

token_is_comment(token) == token.type = "COMMENT"

\* The if statement of the loop without its look at parens.
WhateverParens(d, token) ==
    IF token.type = "OP" THEN [d EXCEPT !.parens = count_parentheses(@, token.text)]
    ELSE IF token_is_newline(token) THEN handle_newline(d, token.type)
    ELSE IF token_is_comment(token) /\ Len(d.processor.tokens) = 1
    THEN handle_comment(d, token)
    ELSE d

\* if token_type == tokenize.OP: ... elif parens == 0: ...
IfOp(d, token) ==
    IF token.type = "OP" THEN [d EXCEPT !.parens = count_parentheses(@, token.text)]
    ELSE IF d.parens = 0
    THEN IF token_is_newline(token) THEN handle_newline(d, token.type)
         ELSE IF token_is_comment(token) /\ Len(d.processor.tokens) = 1
         THEN handle_comment(d, token)
         ELSE d
    ELSE d

\* generate_tokens() has read the lines of the token, appends it to
\* processor.tokens and yields it.
generate_tokens(d, token) ==
    [d EXCEPT !.pos = @ + 1,
              !.processor.tokens = Append(@, token),
              !.processor.line_number = token.end_row]

\* The body of the loop of process_tokens.
ForToken(d, token) == IfOp(check_physical_eol(generate_tokens(d, token), token), token)

\* The end of process_tokens without the test of file_processor.tokens.
LeftOverWhateverBuffer(d) ==
    run_logical_checks(run_physical_checks(d, <<"line", d.processor.line_number>>))

\* if file_processor.tokens: ... (lines[-1] is the last line that was read)
LeftOver(d) ==
    IF d.processor.tokens # <<>>
    THEN run_logical_checks(run_physical_checks(d, <<"line", d.processor.line_number>>))
    ELSE d

\* The FileChecker of filename when run_checks is called on it.
Driver(filename, stream) ==
    [started |-> TRUE, pc |-> "called", stream |-> stream, pos |-> 0,
     self |-> FileChecker__init__(filename).self,
     processor |-> [tokens |-> <<>>, line_number |-> 0],
     parens |-> 0, events |-> <<>>, at_signal |-> <<>>, raised |-> NoException]

OneYield == <<<<1, 0, TrailingWhitespace, "plugin">>>>

\* The files of the token machine: skipped or not, with a token stream that
\* ends or breaks.
TokenFileKinds ==
    {[Clean EXCEPT !.should_ignore = skip, !.invalid_syntax = broken, !.ast_yields = OneYield] :
        skip \in BOOLEAN, broken \in {<<>>, <<TokenError>>}}

NoneOrQueue == {NoQueue, [created |-> TRUE, items |-> <<>>]}

InitTokens ==
    \E kind \in TokenFileKinds, queue \in NoneOrQueue, whole \in TokenStreams :
        \E stream \in IF kind.invalid_syntax = <<>> THEN {whole} ELSE Prefixes_of(whole) :
            /\ ManagerIs([Manager__init__(SerialEnv, <<Named(kind, FileNames[1])>>)
                             EXCEPT !.results_queue = queue])
            /\ guide = NoStyleGuide
            /\ driver = Driver(FileNames[1], stream)

\* if self.processor.should_ignore_file(): return
enter_run_checks ==
    /\ driver.pc = "called"
    /\ driver' = [driver EXCEPT !.pc = IF FileOf(driver.self.filename).should_ignore
                                       THEN "returned" ELSE "tokens"]
    /\ UNCHANGED guide
    /\ UnchangedManager

next_token ==
    /\ driver.pc = "tokens"
    /\ driver.pos < Len(driver.stream)
    /\ driver' = ForToken(driver, driver.stream[driver.pos + 1])
    /\ UNCHANGED guide
    /\ UnchangedManager

end_of_tokens ==
    /\ driver.pc = "tokens"
    /\ driver.pos = Len(driver.stream)
    /\ FileOf(driver.self.filename).invalid_syntax = <<>>
    /\ driver' = [LeftOver(driver) EXCEPT !.pc = "ast"]
    /\ UNCHANGED guide
    /\ UnchangedManager

\* generate_tokens() raises InvalidSyntax, which leaves process_tokens.
raise_invalid_syntax ==
    /\ driver.pc = "tokens"
    /\ driver.pos = Len(driver.stream)
    /\ FileOf(driver.self.filename).invalid_syntax # <<>>
    /\ driver' = [driver EXCEPT
                     !.pc = "ast",
                     !.at_signal = driver.self.results,
                     !.self = ExceptInvalidSyntax(
                                  Outcome("InvalidSyntax", driver.self,
                                          FileOf(driver.self.filename).invalid_syntax[1])).self,
                     !.raised = ExceptInvalidSyntax(
                                    Outcome("InvalidSyntax", driver.self,
                                            FileOf(driver.self.filename).invalid_syntax[1])).raised]
    /\ UNCHANGED guide
    /\ UnchangedManager

\* self.run_ast_checks() and the put on results_queue
return_from_run_checks ==
    /\ driver.pc = "ast"
    /\ driver' = [driver EXCEPT !.pc = "returned",
                                !.self = PutResults(run_ast_checks(driver.self), results_queue).self,
                                !.raised = PutResults(run_ast_checks(driver.self), results_queue).raised]
    /\ results_queue' = [results_queue EXCEPT
                            !.items = @ \o PutResults(run_ast_checks(driver.self), results_queue).ret]
    /\ UNCHANGED <<guide, env, files, jobs, using_multiprocessing, process_queue,
                   processes, checkers, log, main, procs, reporter, handled, hist>>

NextTokens ==
    \/ enter_run_checks
    \/ next_token
    \/ end_of_tokens
    \/ raise_invalid_syntax
    \/ return_from_run_checks

SpecTokens == InitTokens /\ [][NextTokens]_vars

(***************************************************************************)
(* The loop of run_logical_checks over the results of a logical-line       *)
(* plugin: each offset is resolved with find_offset and reported.  An      *)
(* offset is an int or a (row, column) tuple.                              *)
(***************************************************************************)
MaxOffset == 3  \* largest boundary offset of a mapping

IntOffset(n) == <<"int", n>>

TupleOffset(row, column) == <<"tuple", row, column>>

\* for token_offset, position in mapping: if offset <= token_offset: break
\* The index of the entry that token_offset and position are bound to after
\* the loop.
RECURSIVE ForTokenOffset(_, _, _)
ForTokenOffset(offset, mapping, k) ==
    IF offset <= mapping[k][1] \/ k = Len(mapping) THEN k
    ELSE ForTokenOffset(offset, mapping, k + 1)

\* find_offset that breaks at the first boundary strictly after the offset.
FindOffsetStrictlyAfter(offset, mapping) ==
    IF offset[1] = "tuple" THEN <<offset[2], offset[3]>>
    ELSE LET after == {k \in DOMAIN mapping : offset[2] < mapping[k][1]}
             k == IF after = {} THEN Len(mapping)
                  ELSE CHOOSE n \in after : \A m \in after : n <= m
         IN  <<mapping[k][2][1], mapping[k][2][2] + offset[2] - mapping[k][1]>>

find_offset(offset, mapping) ==
    IF offset[1] = "tuple" THEN <<offset[2], offset[3]>>
    ELSE <<mapping[ForTokenOffset(offset[2], mapping, 1)][2][1],
           mapping[ForTokenOffset(offset[2], mapping, 1)][2][2] + offset[2]
               - mapping[ForTokenOffset(offset[2], mapping, 1)][1]>>

\* for offset, text in results: offset = find_offset(offset, mapping);
\* self.report(error_code=None, line_number=..., column=..., text=text)
RECURSIVE ForOffsetText(_, _, _)
ForOffsetText(self, results, mapping) ==
    IF results = <<>> THEN self
    ELSE ForOffsetText(report(self, None,
                              find_offset(results[1][1], mapping)[1],
                              find_offset(results[1][1], mapping)[2],
                              results[1][2]).self,
                       Tail(results), mapping)

\* The mappings of build_logical_line: none for a line without tokens, else
\* <<boundary offset, <<row, column>>>> entries whose boundary offsets
\* increase from 0, the tokens in the order of the file; two tokens of one
\* row are at least as far apart in the file as in the logical line.
Mappings ==
    {<<>>} \cup {<<<<0, p>>>> : p \in Positions}
        \cup {<<<<0, m[1]>>, <<m[2], m[3]>>>> :
                 m \in {n \in Positions \X (1..MaxOffset) \X Positions :
                           \/ n[1][1] < n[3][1]
                           \/ n[1][1] = n[3][1] /\ n[1][2] + n[2] <= n[3][2]}}

\* The offsets a plugin returns: into the logical line, up to its end, or
\* absolute.
Offsets ==
    {IntOffset(n) : n \in 0..(MaxOffset + 1)} \cup {TupleOffset(p[1], p[2]) : p \in Positions}

PluginResults ==
    {<<<<o, MissingWhitespace>>>> : o \in Offsets}
        \cup {<<<<o[1], MissingWhitespace>>, <<o[2], LongLine>>>> : o \in Offsets \X Offsets}

InitOffsets ==
    \E mapping \in Mappings, results \in PluginResults :
        /\ ManagerIs(Manager__init__(SerialEnv, <<Named(Clean, FileNames[1])>>))
        /\ guide = NoStyleGuide
        /\ driver = [pc |-> "run_logical_checks",
                     self |-> FileChecker__init__(FileNames[1]).self,
                     mapping |-> mapping, results |-> results]

\* run_logical_checks with one plugin: if not mapping: return; the loop over
\* the results; self.processor.next_logical_line()
call_run_logical_checks ==
    /\ driver.pc = "run_logical_checks"
    /\ driver' = IF driver.mapping = <<>> THEN [driver EXCEPT !.pc = "returned"]
                 ELSE [driver EXCEPT
                          !.pc = "next_logical_line",
                          !.self = ForOffsetText(driver.self, driver.results, driver.mapping)]
    /\ UNCHANGED guide
    /\ UnchangedManager

SpecOffsets == InitOffsets /\ [][call_run_logical_checks]_vars

(***************************************************************************)
(* Properties.  What the caller did, and the sequence of handle_error     *)
(* calls a run is expected to make.                                        *)
(***************************************************************************)
\* The position of a method among the caller's calls, 0 if it was not called.
CallIndex(method) ==
    IF method \in Range(main.calls)
    THEN CHOOSE i \in DOMAIN main.calls : main.calls[i] = method
    ELSE 0

CalledBefore(a, b) == CallIndex(a) > 0 /\ CallIndex(a) < CallIndex(b)

HasReturned(method) ==
    /\ CallIndex(method) > 0
    /\ CallIndex(method) < Len(main.calls) \/ main.pc = "idle"

\* The drivers were made, then run() and then report() returned.
CompleteRun ==
    /\ CalledBefore("make_checkers", "run") \/ CalledBefore("start", "run")
    /\ CalledBefore("run", "report")
    /\ HasReturned("report")

\* The raw diagnostics the checks produce for a file.
RawResults(filename) == run_checks(FileChecker__init__(filename).self, NoQueue).self.results

FileIndex(filename) == CHOOSE i \in DOMAIN files : files[i].filename = filename

PositionLeq(a, b) ==
    \/ a.line_number < b.line_number
    \/ a.line_number = b.line_number /\ a.column_number <= b.column_number

\* File by file in enumeration order and, within a file, in non-decreasing
\* (line_number, column_number) order.
InReportOrder(hs) ==
    \A i, j \in DOMAIN hs :
        i < j => \/ FileIndex(hs[i].filename) < FileIndex(hs[j].filename)
                 \/ hs[i].filename = hs[j].filename /\ PositionLeq(hs[i], hs[j])

\* What a parallel run that completes forwards for the drivers cs: the replay
\* of _report_after_parallel over the raw diagnostics of every file.
ParallelForwards(cs) ==
    _report_after_parallel(cs, [f \in {cs[i].filename : i \in DOMAIN cs} |-> RawResults(f)])

\* C1: the handle_error calls of a complete serial run are, in order, those a
\* complete parallel run makes for the same files.
C1_SerialEqualsParallel ==
    (~using_multiprocessing /\ CompleteRun) => handled = ParallelForwards(checkers)

\* C2: in a serial run, report() forwards the diagnostics driver by driver in
\* enumeration order and, for each driver, in non-decreasing
\* (line_number, column_number) order.
C2_SerialReportOrder ==
    (~using_multiprocessing /\ HasReturned("report")) => InReportOrder(handled)

\* A parallel run in which run() started every process, start() enqueued every
\* driver and stop() pushed its sentinels.
ParallelRunStopped ==
    /\ using_multiprocessing
    /\ hist.oserror = "none"
    /\ CalledBefore("make_checkers", "run")
    /\ CalledBefore("run", "start")
    /\ CalledBefore("start", "stop")

\* Every worker has exited and the reporter has taken everything off the
\* results queue.
ResultsCollected ==
    /\ \A w \in DOMAIN procs : procs[w].pc = "exited"
    /\ results_queue.items = <<>>

\* C3: in a parallel run, once the reporter has received what the workers
\* produced, in whatever order, it has forwarded the diagnostics file by file in
\* enumeration order, each file's in (line_number, column_number) order.
C3_ParallelReportOrder ==
    (ParallelRunStopped /\ ResultsCollected) =>
        /\ handled = ParallelForwards(checkers)
        /\ InReportOrder(handled)

\* Some process can take a step: a worker or the reporter has something to
\* receive or a driver to run, or the process stop() is joining has exited.
SomeProcessCanStep ==
    \/ \E w \in DOMAIN procs :
           \/ procs[w].pc = "get" /\ process_queue.items # <<>>
           \/ procs[w].pc = "run"
    \/ reporter.pc = "collect" /\ results_queue.items # <<>>
    \/ main.pc = "stop_join" /\ Exited(processes[main.idx])

\* C4: in a parallel run, after stop() has pushed its sentinels no process stays
\* blocked forever on a queue receive: until stop() returns, some process can
\* take a step.
C4_ParallelShutdown ==
    (ParallelRunStopped /\ main.pc = "stop_join") => SomeProcessCanStep

\* C5: when run_parallel raises an OSError, run() falls back to run_checks for
\* every driver, in enumeration order, if the errno is ENOSPC, and otherwise
\* re-raises the error and runs no driver.
C5_SerialRetry ==
    hist.oserror # "none" =>
        IF hist.oserror = "ENOSPC"
        THEN main.raised # "OSError" /\ hist.run_checks = hist.drivers
        ELSE main.raised = "OSError" /\ hist.run_checks = <<>>

\* run() fell back after a worker had been started, and ran two drivers.
C5_Witness ==
    /\ hist.oserror = "ENOSPC"
    /\ processes # <<>>
    /\ Len(hist.run_checks) >= 2
    /\ hist.run_checks = hist.drivers

\* C6: after run() has fallen back to run_serial, the report() that follows
\* forwards every diagnostic the drivers hold.
C6_FallbackForwardsAll ==
    (hist.oserror \in SERIAL_RETRY_ERRNOS /\ CompleteRun) =>
        \A i \in DOMAIN checkers : \A k \in DOMAIN checkers[i].results :
            handle_error(checkers[i].filename, checkers[i].results[k]) \in Range(handled)

\* C7: _job_count never raises; it returns 0 when multiprocessing is missing, on
\* Windows, with stdin, with --diff, and for a --jobs value that is neither
\* "auto" nor a string of digits; the CPU count (0 if unknown) for "auto"; the
\* integer value of --jobs otherwise.
C7_JobCount ==
    main.pc # "new" =>
        /\ main.raised = NoException
        /\ jobs = IF \/ ~env.multiprocessing
                     \/ env.is_windows
                     \/ env.is_using_stdin
                     \/ env.diff
                  THEN 0
                  ELSE IF env.jobs = Auto
                  THEN IF env.cpu_count.implemented THEN env.cpu_count.count ELSE 0
                  ELSE IF ~isdigit(env.jobs) THEN 0
                  ELSE int(env.jobs)

Last(s) == s[Len(s)]

\* Neither __init__ nor run() raised.
InitAndRunRaiseNothing ==
    /\ main.calls = <<>> => main.raised = NoException
    /\ main.calls # <<>> /\ Last(main.calls) = "run" => main.raised = NoException

\* run() ran run_checks for every driver, in order, in the main process, and
\* there is no queue and no process.
RanSynchronously ==
    /\ hist.run_checks = hist.drivers
    /\ processes = <<>>
    /\ \A w \in DOMAIN procs : procs[w].pc = "unborn"
    /\ reporter.pc = "unborn"
    /\ ~process_queue.created /\ ~results_queue.created

\* C8: with --jobs 0 or --jobs banana the worker count is 0, a warning is
\* logged, nothing is raised, and run() runs every driver synchronously in
\* enumeration order without starting a process.
C8_ZeroOrInvalidJobs ==
    env.jobs \in {<<"0">>, Banana} =>
        /\ jobs = 0
        /\ log # <<>>
        /\ InitAndRunRaiseNothing
        /\ "run" \in Range(main.calls) => RanSynchronously

\* C8, as the code has it: the warning is logged for banana; for 0 no warning
\* says that the value is invalid, and none is logged at all unless --diff (or
\* another of the conditions that rule parallelism out) holds.
C8_ZeroOrInvalidJobsAmended ==
    env.jobs \in {<<"0">>, Banana} =>
        /\ jobs = 0
        /\ env.jobs = Banana => log # <<>>
        /\ env.jobs = <<"0">> => "not a valid parameter to --jobs" \notin Range(log)
        /\ env.jobs = <<"0">> /\ ~env.diff => log = <<>>
        /\ InitAndRunRaiseNothing
        /\ "run" \in Range(main.calls) => RanSynchronously

\* A run with --jobs 0 that ran two drivers and logged nothing.
C8_Witness ==
    /\ env.jobs = <<"0">>
    /\ "run" \in Range(main.calls)
    /\ Len(hist.run_checks) >= 2
    /\ log = <<>>

\* C9: the driver of a file that cannot be opened is built without an
\* exception and holds exactly one diagnostic, E902 with the name and the
\* message of the error; run_checks on it raises nothing and adds nothing.
C9_UnreadableFile ==
    (~files[1].readable /\ "make_checkers" \in Range(main.calls)) =>
        /\ main.raised = NoException
        /\ Len(checkers) = 1
        /\ Len(checkers[1].results) = 1
        /\ Py(checkers[1].results[1], 0) = "E902"
        /\ Py(checkers[1].results[1], 3) = IOErrorMessage

\* The file whose syntax tree cannot be built has been checked.
AstFailed ==
    /\ files[1].readable
    /\ ~files[1].should_ignore
    /\ files[1].ast_error # <<>>
    /\ CalledBefore("make_checkers", "run")

\* The position an exception of build_ast carries: the (lineno, offset) of the
\* (filename, lineno, offset, text) of a SyntaxError, or a pair as it is.
CarriedPosition(exception) ==
    IF Len(exception.args) < 2 THEN <<1, 0>>
    ELSE IF Len(exception.args[2]) = 4
    THEN <<exception.args[2][2], exception.args[2][3]>>
    ELSE exception.args[2]

\* The results that process_tokens (and the handler of InvalidSyntax) left.
ResultsBeforeAst(filename) ==
    ExceptInvalidSyntax(process_tokens(FileChecker__init__(filename).self)).self.results

CountOf(code, results) == Cardinality({k \in DOMAIN results : Py(results[k], 0) = code})

\* C10: when build_ast fails, run_ast_checks appends one E999 at the position
\* the error carries, or at (1, 0), keeps the results that were there, and
\* runs no syntax-tree plugin; the file's results hold exactly one E999.
C10_AstFailure ==
    AstFailed =>
        LET results == checkers[1].results
            before == ResultsBeforeAst(files[1].filename)
            position == CarriedPosition(files[1].ast_error[1])
        IN  /\ main.raised = NoException
            /\ Len(results) = Len(before) + 1
            /\ SubSeq(results, 1, Len(before)) = before
            /\ Py(Last(results), 0) = "E999"
            /\ Py(Last(results), 1) = position[1]
            /\ Py(Last(results), 2) = position[2]
            /\ CountOf("E999", results) = 1
            /\ CountOf("W291", results) = 0

\* A SyntaxError with a position, in a file with two earlier diagnostics and a
\* syntax-tree plugin that would have reported.
C10_Witness ==
    /\ AstFailed
    /\ files[1].ast_error[1].type = "SyntaxError"
    /\ Len(files[1].ast_error[1].args) = 2
    /\ Len(ResultsBeforeAst(files[1].filename)) >= 2
    /\ files[1].ast_yields # <<>>
    /\ Py(Last(checkers[1].results), 0) = "E999"

(***************************************************************************)
(* Properties of the StyleGuide.                                           *)
(***************************************************************************)
\* p is a leading part of the str s.
IsPrefix(p, s) == \E k \in 0..Len(s) : p = [i \in 1..k |-> s[i]]

Matching(prefixes, code) == {p \in prefixes : IsPrefix(p, code)}

LastWas(method) == guide.made /\ guide.last.method = method

\* C11: should_report_error(code) is Selected when no ignored prefix matches
\* and a selected prefix matches or none is given; the result of _decision_for
\* when a selected and an ignored prefix match; Ignored otherwise.
C11_ShouldReport ==
    LastWas("should_report_error") =>
        LET code == guide.last.args[1]
            select == guide.options.select
            selected == Matching(select, code)
            ignored == Matching(guide.options.ignore, code)
        IN  /\ guide.last.ret =
                   IF ignored = {} /\ (selected # {} \/ select = {}) THEN DecisionSelected
                   ELSE IF selected # {} /\ ignored # {} THEN _decision_for(guide, code)
                   ELSE DecisionIgnored
            /\ guide.last.ret \in {DecisionSelected, DecisionIgnored}
            /\ select = {} /\ guide.options.ignore = {} => guide.last.ret = DecisionSelected
            /\ select = {<<"E", "1">>} /\ guide.options.ignore = {} =>
                   (guide.last.ret = DecisionSelected <=> code[1] = "E" /\ code[2] = "1")

\* With select E1 and E9 and ignore W, E123 is Selected, by a call that found
\* other decisions in the cache.
C11_Witness ==
    /\ LastWas("should_report_error")
    /\ guide.options.select = {<<"E", "1">>, E9}
    /\ guide.options.ignore = {<<"W">>}
    /\ guide.last.args = <<E123>>
    /\ guide.last.ret = DecisionSelected
    /\ {E9, W291} \subseteq DOMAIN guide._decision_cache

Longest(strs) == CHOOSE m \in strs : \A x \in strs : Len(x) <= Len(m)

\* C12: when a selected and an ignored prefix match the code, the decision is
\* Selected iff the longest matching selected prefix is at least as long as
\* the longest matching ignored prefix.
C12_MostSpecificWins ==
    LastWas("should_report_error") =>
        LET code == guide.last.args[1]
            selected == Matching(guide.options.select, code)
            ignored == Matching(guide.options.ignore, code)
        IN  selected # {} /\ ignored # {} =>
                (guide.last.ret = DecisionSelected
                    <=> Len(Longest(selected)) >= Len(Longest(ignored)))

Occurs(needle, line) ==
    \E i \in 1..Len(line) :
        /\ i + Len(needle) - 1 <= Len(line)
        /\ \A k \in DOMAIN needle : line[i + k - 1] = needle[k]

\* The line that the error is on, as the caller gave it or as it is in the file.
LineOf(error) ==
    IF error.physical_line = NoStr THEN getline(error.filename, error.line_number)
    ELSE error.physical_line

\* C13: is_inline_ignored is False when noqa is disabled; otherwise True for a
\* line that ends in the marker, in any case, without codes; for a marker
\* followed by ': ' and a list of codes, True iff the error's code is one of
\* them or starts with one of them; False for a line without a marker at its
\* end.
C13_InlineIgnored ==
    LastWas("is_inline_ignored") =>
        LET error == guide.last.args[1]
            line == LineOf(error)
            ret == guide.last.ret
        IN  /\ ret \in BOOLEAN
            /\ guide.options.disable_noqa => ret = FALSE
            /\ ~guide.options.disable_noqa =>
                /\ \A m \in NoqaSpellings, e \in LineEnds :
                       line = Statement \o m \o e => ret = TRUE
                /\ \A m \in NoqaSpellings, e \in LineEnds, l \in CodeLists :
                       l # <<>> /\ line = Statement \o m \o ColonSpace \o join(l) \o e =>
                           (ret <=> \E c \in Range(l) : IsPrefix(c, error.code))
                /\ (\A m \in NoqaSpellings : ~Occurs(m, line)) => ret = FALSE
                /\ \A m \in NoqaSpellings, e \in LineEnds, l \in CodeLists, a \in AfterMarker :
                       line = Statement \o m \o a \o join(l) \o <<" ", "x">> \o e => ret = FALSE
                /\ line = NoqaE501Line \o <<>> =>
                       (ret <=> error.code = E501)

\* E501 on a line that ends in '# NOQA: E501,W291' and a newline is ignored,
\* and so is one on a line that the file has to be read for.
C13_Witness ==
    /\ LastWas("is_inline_ignored")
    /\ ~guide.options.disable_noqa
    /\ guide.last.args[1].code = E501
    /\ guide.last.args[1].physical_line =
           Statement \o <<"#", " ", "N", "O", "Q", "A">> \o ColonSpace \o join(<<E501, W291>>) \o <<"\n">>
    /\ guide.last.ret = TRUE

\* C14: is_in_diff is True when there are no diff ranges; with diff ranges it
\* is False for a file without an entry or with an empty set of lines, and
\* otherwise True iff the line number is in the set of the file.
\* add_diff_ranges makes its argument the diff ranges.
C14_InDiff ==
    /\ LastWas("is_in_diff") =>
        LET error == guide.last.args[1]
            table == guide._parsed_diff
            ret == guide.last.ret
        IN  /\ ret \in BOOLEAN
            /\ DOMAIN table = {} => ret = TRUE
            /\ DOMAIN table # {} /\ error.filename \notin DOMAIN table => ret = FALSE
            /\ DOMAIN table # {} /\ error.filename \in DOMAIN table =>
                   /\ table[error.filename] = {} => ret = FALSE
                   /\ ret <=> error.line_number \in table[error.filename]
    /\ LastWas("add_diff_ranges") => guide._parsed_diff = guide.last.args[1]

\* With lines 3, 4 and 5 of a.py in the diff, line 4 of a.py is in it.
C14_Witness ==
    /\ LastWas("is_in_diff")
    /\ DOMAIN guide._parsed_diff = {"a.py"}
    /\ guide._parsed_diff["a.py"] = {3, 4, 5}
    /\ guide.last.args[1].filename = "a.py"
    /\ guide.last.args[1].line_number = 4
    /\ guide.last.ret = TRUE

\* The error that handle_error makes of its arguments.
ErrorOf(call) ==
    IF call.filename \in {None, "-"}
    THEN [call EXCEPT !.filename = guide.options.stdin_display_name]
    ELSE call

\* C15: handle_error calls formatter.handle and then listener.notify, once
\* each, iff should_report_error is Selected, the error is not ignored inline
\* and it is in the diff; otherwise it calls neither.
C15_HandleError ==
    LastWas("handle_error") =>
        LET error == ErrorOf(guide.last.args[1])
            table == guide._parsed_diff
            accepted ==
                /\ should_report_error(guide, error.code).ret = DecisionSelected
                /\ ~is_inline_ignored(guide, error).ret
                /\ \/ DOMAIN table = {}
                   \/ /\ error.filename \in DOMAIN table
                      /\ error.line_number \in table[error.filename]
        IN  /\ accepted =>
                guide.last.emitted =
                    <<[call |-> "formatter.handle", args |-> <<error>>],
                      [call |-> "listener.notify", args |-> <<error.code, error>>]>>
            /\ ~accepted => guide.last.emitted = <<>>

\* An error of stdin on a line of the diff is forwarded, and one that is not
\* in the diff was handled before.
C15_Witness ==
    /\ LastWas("handle_error")
    /\ DOMAIN guide._parsed_diff = DiffFiles
    /\ guide.last.args[1].filename = "-"
    /\ Len(guide.last.emitted) = 2
    /\ guide.last.emitted[1].args[1].filename = "stdin"
    /\ DOMAIN guide._decision_cache = NoqaCodes

(***************************************************************************)
(* Properties of the token machine.                                        *)
(***************************************************************************)
\* The calls of run_physical_checks made while token i was the last one yielded.
PhysicalChecksAt(i) ==
    {k \in DOMAIN driver.events :
        driver.events[k].call = "run_physical_checks" /\ driver.events[k].at = i}

\* All calls of run_physical_checks made with processor.line_number = row.
PhysicalChecksOf(row) ==
    {k \in DOMAIN driver.events :
        driver.events[k].call = "run_physical_checks" /\ driver.events[k].line_number = row}

\* The recorded results of the physical-line plugin for a row.
PhysicalResultsOf(row) ==
    {k \in DOMAIN driver.self.results :
        /\ Py(driver.self.results[k], 0) = "W291"
        /\ Py(driver.self.results[k], 1) = row
        /\ k <= Len(driver.self.results) - (IF driver.pc = "returned" THEN 1 ELSE 0)}

\* Token j is the NEWLINE or NL that ends the row.
EndsRow(j, row) ==
    driver.stream[j].type \in {"NEWLINE", "NL"} /\ driver.stream[j].start_row = row

\* C16: for a string token over the rows a..b, a < b, physical checks run
\* once for each of the rows a..b-1, in order, with processor.line_number that
\* row, and not for row b at that token; row b is checked once, when the
\* token that ends it arrives; processor.line_number is back at b after the
\* string token.
C16_MultilineString ==
    driver.started =>
        \A i \in 1..driver.pos :
            LET token == driver.stream[i]
                a == token.start_row
                b == token.end_row
            IN  token.type = "STRING" /\ a < b =>
                    /\ Cardinality(PhysicalChecksAt(i)) = b - a
                    /\ \A r \in a..(b - 1) :
                           /\ PhysicalChecksOf(r) \subseteq PhysicalChecksAt(i)
                           /\ Cardinality(PhysicalChecksOf(r)) = 1
                           /\ Cardinality(PhysicalResultsOf(r)) = 1
                    /\ \A k1, k2 \in PhysicalChecksAt(i) :
                           k1 < k2 => driver.events[k1].line_number < driver.events[k2].line_number
                    /\ PhysicalChecksOf(b) \cap PhysicalChecksAt(i) = {}
                    /\ driver.pos = i => driver.processor.line_number = b
                    /\ \A j \in (i + 1)..driver.pos :
                           EndsRow(j, b) =>
                               /\ PhysicalChecksOf(b) = PhysicalChecksAt(j)
                               /\ Cardinality(PhysicalChecksOf(b)) = 1
                               /\ \A k \in PhysicalChecksOf(b) :
                                      driver.events[k].arg = <<"line", b>>
                    /\ (\A j \in (i + 1)..driver.pos : ~EndsRow(j, b)) => PhysicalChecksOf(b) = {}

\* A string over three rows that does not start the file, in parentheses, has
\* been passed, and so has the NL that ends its last row.
C16_Witness ==
    /\ driver.started
    /\ driver.pc = "returned"
    /\ \E i \in 2..(driver.pos - 1) :
           /\ driver.stream[i].type = "STRING"
           /\ driver.stream[i].start_row > 1
           /\ driver.stream[i].end_row = driver.stream[i].start_row + 2
           /\ driver.stream[i - 1].type = "OP"
           /\ EndsRow(i + 1, driver.stream[i].end_row)
           /\ Cardinality(PhysicalChecksAt(i)) = 2

\* The diagnostics that each call of the plugins has recorded.
PluginCalls ==
    {k \in DOMAIN driver.events : driver.events[k].call \in {"run_physical_checks", "logical_line"}}

\* C19: when generate_tokens raises InvalidSyntax, run_checks returns
\* normally, with the results recorded before it, then one result with the
\* code, position and message of the exception, then those of run_ast_checks;
\* no token is processed after it; if there is a results queue, (filename,
\* results) is put on it.
C19_InvalidSyntax ==
    (/\ driver.started
     /\ driver.pc = "returned"
     /\ ~FileOf(driver.self.filename).should_ignore
     /\ FileOf(driver.self.filename).invalid_syntax # <<>>) =>
        LET exc == FileOf(driver.self.filename).invalid_syntax[1]
            filename == driver.self.filename
        IN  /\ driver.raised = NoException
            /\ driver.self.results =
                   driver.at_signal
                   \o <<<<exc.error_code, exc.line_number, exc.column_number,
                          exc.error_message, line_for(filename, exc.line_number)>>>>
                   \o <<<<"W291", 1, 0, <<"whitespace">>, line_for(filename, 1)>>>>
            /\ Len(driver.at_signal) = Cardinality(PluginCalls)
            /\ driver.pos = Len(driver.stream)
            /\ \A k \in DOMAIN driver.events : driver.events[k].at <= driver.pos
            /\ results_queue.created =>
                   results_queue.items =
                       <<[kind |-> "result", filename |-> filename, results |-> driver.self.results]>>
            /\ ~results_queue.created => results_queue.items = <<>>

\* A stream that breaks after checks have recorded results, in a run with a
\* results queue.
C19_Witness ==
    /\ driver.started
    /\ driver.pc = "returned"
    /\ FileOf(driver.self.filename).invalid_syntax # <<>>
    /\ Len(driver.at_signal) >= 2
    /\ Len(driver.self.results) = Len(driver.at_signal) + 2
    /\ Len(results_queue.items) = 1

\* Opening less closing brackets among the tokens.
Depth(tokens) ==
    Cardinality({k \in DOMAIN tokens : tokens[k].text = <<"(">>})
        - Cardinality({k \in DOMAIN tokens : tokens[k].text = <<")">>})

\* C20: handle_newline and handle_comment are called, and logical lines are
\* checked, only with no bracket open; a logical line has all its brackets
\* closed; no call is made for a NEWLINE, NL or COMMENT inside brackets.
C20_NestingZero ==
    driver.started =>
        /\ driver.parens = Depth(SubSeq(driver.stream, 1, driver.pos))
        /\ \A k \in DOMAIN driver.events :
               driver.events[k].call \in {"handle_newline", "handle_comment", "logical_line"} =>
                   Depth(SubSeq(driver.stream, 1, driver.events[k].at)) = 0
        /\ \A k \in DOMAIN driver.events :
               driver.events[k].call = "logical_line" =>
                   /\ Depth(driver.events[k].arg) = 0
                   /\ \A n \in 0..Len(driver.events[k].arg) :
                          Depth(SubSeq(driver.events[k].arg, 1, n)) >= 0
        /\ \A i \in 1..driver.pos :
               Depth(SubSeq(driver.stream, 1, i)) > 0 =>
                   ~\E k \in DOMAIN driver.events :
                       /\ driver.events[k].at = i
                       /\ driver.events[k].call # "run_physical_checks"

\* A logical line of three rows, with NL and COMMENT tokens between its
\* brackets, has been checked.
C20_Witness ==
    /\ driver.started
    /\ \E k \in DOMAIN driver.events :
           /\ driver.events[k].call = "logical_line"
           /\ \E n \in DOMAIN driver.events[k].arg :
                  /\ driver.events[k].arg[n].type = "COMMENT"
                  /\ Depth(SubSeq(driver.events[k].arg, 1, n)) > 0
           /\ driver.events[k].arg[Len(driver.events[k].arg)].start_row
                  = driver.events[k].arg[1].start_row + 2

(***************************************************************************)
(* Properties of the worker processes and the reporter.                    *)
(***************************************************************************)
\* run() has started the workers and the reporter.
ParallelRun == using_multiprocessing /\ hist.oserror = "none" /\ reporter.pc # "unborn"

WorkersStarted == Cardinality({w \in DOMAIN procs : procs[w].pc # "unborn"})

ResultPairsLeft ==
    {k \in DOMAIN results_queue.items : results_queue.items[k].kind = "result"}

\* C17: in a parallel run the reporter ends its collection exactly when it
\* has seen as many sentinels as workers were started; by then every worker
\* has exited and no (filename, results) pair is left on the results queue;
\* before that nothing is forwarded to the StyleGuide.
C17_ReporterConcludes ==
    ParallelRun =>
        /\ reporter.pc = "exited" <=> reporter.seen_done = WorkersStarted
        /\ reporter.pc = "exited" =>
               /\ \A w \in DOMAIN procs : procs[w].pc = "exited"
               /\ ResultPairsLeft = {}
        /\ reporter.pc # "exited" => handled = <<>>

\* How often the checker of a file is on the process queue.
OnProcessQueue(f) ==
    Cardinality({k \in DOMAIN process_queue.items :
                    /\ process_queue.items[k].kind = "checker"
                    /\ process_queue.items[k].checker.filename = f})

\* How many workers have got the checker of a file and not yet run it.
HeldByWorkers(f) ==
    Cardinality({w \in DOMAIN procs : procs[w].pc = "run" /\ procs[w].holding[1].filename = f})

\* C18: in a parallel run, whatever the interleaving, a checker put on the
\* process queue is got by one worker at most and is not lost; run_checks is
\* called once for each checker got; a file that is not skipped gives one
\* (filename, results) pair, a skipped file none; a worker puts one sentinel
\* on the results queue, as its last step; when start() came before stop()
\* and the workers have exited, every checker has been got and run.
C18_WorkerProtocol ==
    (using_multiprocessing /\ hist.oserror = "none") =>
        /\ \A f \in DOMAIN hist.placed :
               /\ hist.placed[f] <= 1
               /\ hist.pulled[f] + OnProcessQueue(f) = hist.placed[f]
               /\ hist.ran[f] + HeldByWorkers(f) = hist.pulled[f]
               /\ hist.pairs[f] = IF FileOf(f).should_ignore THEN 0 ELSE hist.ran[f]
        /\ \A w \in DOMAIN procs :
               hist.sentinels[w] = IF procs[w].pc = "exited" THEN 1 ELSE 0
        /\ (/\ CalledBefore("start", "stop")
            /\ WorkersStarted > 0
            /\ \A w \in DOMAIN procs : procs[w].pc = "exited") =>
               \A f \in DOMAIN hist.placed :
                   hist.placed[f] = 1 => OnProcessQueue(f) = 0 /\ hist.ran[f] = 1

\* Two workers have exited after the checkers of two files, one of them
\* skipped, were put on the queue, got and run.
C18_Witness ==
    /\ using_multiprocessing
    /\ hist.oserror = "none"
    /\ CalledBefore("start", "stop")
    /\ WorkersStarted = 2
    /\ \A w \in DOMAIN procs : procs[w].pc = "exited"
    /\ Cardinality(DOMAIN hist.placed) = 2
    /\ \A f \in DOMAIN hist.placed : hist.ran[f] = 1
    /\ \E f \in DOMAIN hist.placed : hist.pairs[f] = 0
    /\ \E f \in DOMAIN hist.placed : hist.pairs[f] = 1

(***************************************************************************)
(* Properties of handle_newline and of the end of process_tokens.          *)
(***************************************************************************)
\* Event n is a call that handle_newline makes itself.
MadeByHandleNewline(n) ==
    driver.events[n].call \in
        {"run_logical_checks", "reset_blank_before", "visited_new_blank_line",
         "delete_first_token"}

\* The calls that the handle_newline of event k made: those logged after it,
\* up to the next call that is not made by handle_newline or run_logical_checks.
CallsOf(k) ==
    LET stops == {n \in (k + 1)..Len(driver.events) :
                     ~MadeByHandleNewline(n) /\ driver.events[n].call # "logical_line"}
        last == IF stops = {} THEN Len(driver.events)
                ELSE (CHOOSE n \in stops : \A m \in stops : n <= m) - 1
        made == {n \in (k + 1)..last : MadeByHandleNewline(n)}
    IN  [call \in {"run_logical_checks", "reset_blank_before", "visited_new_blank_line",
                   "delete_first_token"} |->
            {n \in made : driver.events[n].call = call}]

\* C21: handle_newline does one of three things: for a NEWLINE it runs the
\* logical checks and then resets blank_before; for another terminator that
\* is the only buffered token it counts a blank line and deletes the token,
\* without logical checks; for another terminator with more tokens buffered
\* it runs the logical checks and neither resets nor counts.
C21_HandleNewline ==
    driver.started =>
        \A k \in DOMAIN driver.events :
            driver.events[k].call = "handle_newline" =>
                LET calls == CallsOf(k)
                    one(call) == Cardinality(calls[call]) = 1
                    none(call) == calls[call] = {}
                IN  /\ driver.stream[driver.events[k].at].type = driver.events[k].arg
                    /\ driver.events[k].arg \in {"NEWLINE", "NL"}
                    /\ driver.events[k].arg = "NEWLINE" =>
                           /\ one("run_logical_checks") /\ one("reset_blank_before")
                           /\ none("visited_new_blank_line") /\ none("delete_first_token")
                           /\ \A a \in calls["run_logical_checks"], b \in calls["reset_blank_before"] :
                                  a < b
                    /\ (driver.events[k].arg # "NEWLINE" /\ driver.events[k].buffered = 1) =>
                           /\ one("visited_new_blank_line") /\ one("delete_first_token")
                           /\ none("run_logical_checks") /\ none("reset_blank_before")
                           /\ \A a \in calls["visited_new_blank_line"], b \in calls["delete_first_token"] :
                                  a < b
                           /\ (k + 2 = Len(driver.events) /\ driver.pos = driver.events[k].at) =>
                                  driver.processor.tokens = <<>>
                    /\ (driver.events[k].arg # "NEWLINE" /\ driver.events[k].buffered > 1) =>
                           /\ one("run_logical_checks")
                           /\ none("reset_blank_before")
                           /\ none("visited_new_blank_line") /\ none("delete_first_token")

\* A file of a blank line and a comment line, in either order: the NL of the
\* blank line is the only buffered token, the NL of the comment line is not.
C21_Witness ==
    /\ driver.started
    /\ driver.pc = "ast"
    /\ \E k \in DOMAIN driver.events :
           /\ driver.events[k].call = "handle_newline"
           /\ driver.events[k].arg = "NL"
           /\ driver.events[k].buffered = 1
    /\ \E k \in DOMAIN driver.events :
           /\ driver.events[k].call = "handle_newline"
           /\ driver.events[k].arg = "NL"
           /\ driver.events[k].buffered > 1

NotPluginCall(event) == event.call # "logical_line"

\* The calls made in the step: the events the step adds, without the
\* invocations of the plugins.
NewCalls ==
    SelectSeq(SubSeq(driver'.events, Len(driver.events) + 1, Len(driver'.events)),
              NotPluginCall)

\* p is the place of a token that some call of run_logical_checks had in
\* its buffer, or that delete_first_token discarded as a blank line.
Presented(d, p) ==
    \E k \in DOMAIN d.events :
        \/ /\ d.events[k].call = "run_logical_checks"
           /\ d.events[k].at >= p
           /\ \E n \in DOMAIN d.events[k].arg : d.events[k].arg[n] = d.stream[p]
        \/ /\ d.events[k].call = "delete_first_token"
           /\ d.events[k].at = p

\* C22: when generate_tokens is exhausted, process_tokens runs one physical
\* check on the last line and then one logical check on the buffer if tokens
\* are buffered, and neither if none is; when it returns, every token has
\* been in the buffer of a logical check (or was discarded as a blank line).
C22_LeftOver ==
    [][(/\ driver.started
        /\ driver.pc = "tokens"
        /\ driver'.pc = "ast"
        /\ FileOf(driver.self.filename).invalid_syntax = <<>>)
       => /\ IF driver.processor.tokens # <<>>
             THEN /\ Len(NewCalls) = 2
                  /\ NewCalls[1].call = "run_physical_checks"
                  /\ NewCalls[1].arg = driver.stream[Len(driver.stream)].line
                  /\ NewCalls[2].call = "run_logical_checks"
                  /\ NewCalls[2].arg = driver.processor.tokens
             ELSE driver'.events = driver.events
          /\ driver'.raised = NoException
          /\ \A p \in DOMAIN driver.stream : Presented(driver', p)]_vars

\* process_tokens has returned from a file whose last line has no newline, or
\* is a comment: the two last calls are the final checks on the buffer.
C22_Witness ==
    /\ driver.started
    /\ driver.pc = "ast"
    /\ FileOf(driver.self.filename).invalid_syntax = <<>>
    /\ \E k \in DOMAIN driver.events :
           /\ driver.events[k].call = "run_physical_checks"
           /\ driver.events[k].buffered > 0
           /\ k + 1 \in DOMAIN driver.events
           /\ driver.events[k + 1].call = "run_logical_checks"
           /\ driver.events[k + 1].arg # <<>>
           /\ driver.events[k + 1].at = Len(driver.stream)

(***************************************************************************)
(* Properties of find_offset.                                              *)
(***************************************************************************)
\* The entries of the mapping whose boundary offset is at or after n.
AtOrAfter(mapping, n) == {k \in DOMAIN mapping : mapping[k][1] >= n}

\* The entry find_offset is to use for the integer offset n.
EntryFor(mapping, n) ==
    IF AtOrAfter(mapping, n) = {} THEN Len(mapping)
    ELSE CHOOSE k \in AtOrAfter(mapping, n) : \A m \in AtOrAfter(mapping, n) : k <= m

\* C23: each result of the plugin is reported at its own (line, column) if
\* its offset is such a pair; else at the line of the first mapping entry
\* whose boundary is at or after the offset, and at that entry's column +
\* offset - boundary; an offset past every boundary uses the last entry and
\* lands after the last token's position.
C23_FindOffset ==
    driver.pc = "next_logical_line" =>
        /\ Len(driver.self.results) = Len(driver.results)
        /\ \A i \in DOMAIN driver.results :
               LET offset == driver.results[i][1]
                   line_number == driver.self.results[i][2]
                   column == driver.self.results[i][3]
                   entry == driver.mapping[EntryFor(driver.mapping, offset[2])]
                   last == driver.mapping[Len(driver.mapping)]
               IN  IF offset[1] = "tuple"
                   THEN line_number = offset[2] /\ column = offset[3]
                   ELSE /\ line_number = entry[2][1]
                        /\ column = entry[2][2] + offset[2] - entry[1]
                        /\ offset[2] > last[1] =>
                               /\ line_number = last[2][1]
                               /\ column > last[2][2]

\* A mapping of two tokens and a plugin that returned an offset between the
\* two boundaries and one past the last.
C23_Witness ==
    /\ driver.pc = "next_logical_line"
    /\ Len(driver.mapping) = 2
    /\ Len(driver.self.results) = 2
    /\ \E i, j \in DOMAIN driver.results :
           /\ driver.results[i][1][1] = "int"
           /\ driver.results[i][1][2] > 0
           /\ driver.results[i][1][2] < driver.mapping[2][1]
           /\ driver.results[j][1][1] = "int"
           /\ driver.results[j][1][2] > driver.mapping[2][1]

\* C24: every result of a FileChecker has line_number >= 1 and
\* column_number >= 0.
C24_AbsolutePositions ==
    \A i \in DOMAIN driver.self.results :
        /\ driver.self.results[i][2] >= 1
        /\ driver.self.results[i][3] >= 0

(***************************************************************************)
(* Properties of the decision cache.                                       *)
(***************************************************************************)
\* The decision that options.select and options.ignore give for the code.
Configured(code) ==
    LET selected == Matching(guide.options.select, code)
        ignored == Matching(guide.options.ignore, code)
    IN  IF ignored = {} /\ (selected # {} \/ guide.options.select = {}) THEN DecisionSelected
        ELSE IF selected # {} /\ ignored # {} THEN _decision_for(guide, code)
        ELSE DecisionIgnored

\* The noqa comment of the error's line covers the error.
Suppressed(error) ==
    /\ ~guide.options.disable_noqa
    /\ LineOf(error) \in {NoqaLine, NoqaE501Line}
    /\ LineOf(error) = NoqaE501Line => error.code = E501

\* The error is on a line of the diff, or there is no diff.
InParsedDiff(error) ==
    \/ DOMAIN guide._parsed_diff = {}
    \/ /\ error.filename \in DOMAIN guide._parsed_diff
       /\ error.line_number \in guide._parsed_diff[error.filename]

\* C25: the cache has entries only for codes that were queried; each is
\* Selected or Ignored, is the decision the select and ignore options give,
\* and is the decision the first query returned, so a repeated query returns
\* the same; handle_error forwards by the noqa comment and the diff of the
\* error at hand, whatever the cache holds.
C25_DecisionCache ==
    guide.made =>
        /\ DOMAIN guide._decision_cache \subseteq DOMAIN driver.first
        /\ \A code \in DOMAIN guide._decision_cache :
               /\ guide._decision_cache[code] \in {DecisionSelected, DecisionIgnored}
               /\ guide._decision_cache[code] = Configured(code)
               /\ guide._decision_cache[code] = driver.first[code]
        /\ LastWas("should_report_error") =>
               /\ guide.last.ret = driver.first[guide.last.args[1]]
               /\ guide.last.ret = Configured(guide.last.args[1])
        /\ LastWas("handle_error") =>
               LET error == ErrorOf(guide.last.args[1])
               IN  guide.last.emitted =
                       IF /\ driver.first[error.code] = DecisionSelected
                          /\ ~Suppressed(error)
                          /\ InParsedDiff(error)
                       THEN <<[call |-> "formatter.handle", args |-> <<error>>],
                              [call |-> "listener.notify", args |-> <<error.code, error>>]>>
                       ELSE <<>>

\* handle_error found the Selected decision of E501 in the cache and did not
\* forward the error, which has a noqa comment and is on a line of the diff;
\* all codes were queried, one of them is Ignored.
C25_Witness ==
    /\ LastWas("handle_error")
    /\ driver.hit
    /\ guide.last.args[1].code = E501
    /\ guide._decision_cache[E501] = DecisionSelected
    /\ guide.last.args[1].physical_line = NoqaE501Line
    /\ InParsedDiff(ErrorOf(guide.last.args[1]))
    /\ DOMAIN guide._parsed_diff # {}
    /\ guide.last.emitted = <<>>
    /\ DOMAIN guide._decision_cache = NoqaCodes
    /\ \E code \in NoqaCodes : guide._decision_cache[code] = DecisionIgnored

(***************************************************************************)
(* Properties of the lifecycle of the Manager.                             *)
(***************************************************************************)
Lifecycle == <<"start", "run", "report", "stop">>

\* C26: when start(), run(), report() and stop() are called in this order on
\* a Manager of any jobs count whose files can all be read, start() and
\* stop() put on no queue that was not created: neither raises.
C26_QueuesCreated ==
    (/\ main.calls # <<>>
     /\ main.calls = SubSeq(Lifecycle, 1, Len(main.calls))
     /\ main.calls[Len(main.calls)] \in {"start", "stop"}
     /\ \A i \in DOMAIN files : files[i].readable)
    => main.raised = NoException

====
